---- MODULE Spec2Model ----
(***************************************************************************)
(* mspkit: the MSP transport (core.py, ConnectionManager) at the level of  *)
(* the bytes on the serial line, and the waypoint mission synchronizer     *)
(* (mission.py, Mission) at the level of the frames it sends and the       *)
(* results read_response hands back.                                       *)
(*                                                                         *)
(* CodecSpec  the byte level: send_msp_v1 / send_msp_v2 / read_response.   *)
(* Spec       the frame level: upload_mission, download_mission and the    *)
(*            other users of one session.                                  *)
(***************************************************************************)
EXTENDS Integers, Sequences, FiniteSets, TLC

VARIABLES
    \* ---- byte level (core.py) ----
    port,       \* bytes (and silences) still to arrive on the serial line
    written,    \* the packet handed to ser.write by the last send
    ret,        \* what the last read_response returned
    rdInput,    \* history: the line as it was when the last read_response began
    rdIters,    \* history: header-scan iterations of the last read_response
    \* ---- frame level (mission.py, config.py) ----
    waypoints,        \* Mission.waypoints
    mission_loaded,   \* Mission._mission_loaded
    pc,               \* where the client thread is
    op,               \* the call in progress, or the last one that returned
    idx,              \* the loop index i of upload_mission / download_mission
    success_count,    \* upload_mission's success_count
    validate,         \* upload_mission's validate argument
    result,           \* what the last call returned
    chan,             \* the session: serial port, frames in flight, the device
    calls,            \* calls made so far
    \* ---- history of the call in progress ----
    allVerified,      \* every waypoint so far was read back within tolerance
    mismatchAt,       \* index whose read-back was out of tolerance, or -1
    dlReads,          \* what each read of download_mission received
    loadedAtCall,     \* mission_loaded when the call began
    \* ---- local edits and the session (mission.py, core.py) ----
    args,             \* history: the arguments of the last local edit
    sess,             \* ConnectionManager: ser, msp_v2_supported, frames sent
    \* ---- clients of one session (core.py, control.py) ----
    thr,              \* two threads that share one ConnectionManager
    ctl,              \* Control: _last_rc_values, _safety_enabled, frames sent
    fx,               \* an altitude on its way through int(alt * 100) and alt / 100.0
    disk,             \* a mission, the file it is saved to and the mission loaded back
    cal               \* a Sensors object and the calibration calls made on it

codecVars == <<port, written, ret, rdInput, rdIters>>

missionVars == <<waypoints, mission_loaded, pc, op, idx, success_count, validate,
                 result, chan, calls, allVerified, mismatchAt, dlReads,
                 loadedAtCall>>

clientVars == <<thr, ctl, fx, disk, cal>>

sessVars == <<args, sess, thr, ctl, fx, disk, cal>>

vars == <<port, written, ret, rdInput, rdIters, waypoints, mission_loaded, pc, op,
          idx, success_count, validate, result, chan, calls, allVerified,
          mismatchAt, dlReads, loadedAtCall, args, sess, thr, ctl, fx, disk, cal>>

-----------------------------------------------------------------------------
(* Bounds of the byte-level model *)

MaxPayload == 2     \* longest payload of a modelled frame
MaxNoise == 1       \* most noise items ahead of a frame
MaxIters == 3       \* most header-scan iterations before the deadline passes
MaxFirst == 6       \* most bytes on the line ahead of a second frame

PayloadBytes == {0, 3}
NoiseItems == {36, 7}
CodesV1 == {1, 36, 255}
CodesV2 == {1, 4660, 65535}

RECURSIVE SeqsUpTo(_, _)
SeqsUpTo(S, n) ==
    IF n = 0 THEN {<<>>}
    ELSE LET shorter == SeqsUpTo(S, n - 1)
         IN  shorter \cup {Append(s, x) : s \in shorter, x \in S}

Payloads == SeqsUpTo(PayloadBytes, MaxPayload)

-----------------------------------------------------------------------------
(* Bytes *)

GAP == -1   \* a silence on the line longer than the serial timeout

MSP_V1_HEADER == <<36, 77, 60>>      \* $M<
MSP_V2_HEADER == <<36, 88, 60>>      \* $X<
MSP_V1_RESPONSE == <<36, 77, 62>>    \* $M>
MSP_V2_RESPONSE == <<36, 88, 62>>    \* $X>
MSP_ERROR == <<36, 77, 33>>          \* $M!

\* one bit of Python's a ^ b; k is the bit's weight
XorBit(a, b, k) == ((((a \div k) % 2) + ((b \div k) % 2)) % 2) * k

\* Python's ^ on operands below 512 (bytes, and a byte shifted left once)
Xor(a, b) ==
    XorBit(a, b, 1) + XorBit(a, b, 2) + XorBit(a, b, 4) + XorBit(a, b, 8)
        + XorBit(a, b, 16) + XorBit(a, b, 32) + XorBit(a, b, 64)
        + XorBit(a, b, 128) + XorBit(a, b, 256)

\* for b in data: chk ^= b   (over data[1..n])
RECURSIVE XorFold(_, _, _)
XorFold(chk, data, n) ==
    IF n = 0 THEN chk ELSE Xor(XorFold(chk, data, n - 1), data[n])

\* the checksum without the size byte
calculate_checksum_no_size(size, code, data) == XorFold(code, data, Len(data))

calculate_checksum_v1(size, code, data) == XorFold(Xor(size, code), data, Len(data))

\* the pass without the polynomial
CrcShiftOnly(crc) == (crc * 2) % 256

\* one pass of the inner loop: shift left, xor 0xD5 if the top bit was set, mask
CrcShift(crc) ==
    IF (crc \div 128) % 2 = 1 THEN Xor(crc * 2, 213) % 256 ELSE (crc * 2) % 256

RECURSIVE CrcShifts(_, _)
CrcShifts(crc, n) == IF n = 0 THEN crc ELSE CrcShift(CrcShifts(crc, n - 1))

\* the eight passes of the inner loop, for each value of crc ^ byte
CrcByte == [x \in 0..255 |-> CrcShifts(x, 8)]

\* the outer loop over data[1..n]
RECURSIVE CrcFold(_, _)
CrcFold(data, n) ==
    IF n = 0 THEN 0 ELSE CrcByte[Xor(CrcFold(data, n - 1), data[n])]

calculate_crc_v2(data) == CrcFold(data, Len(data))

\* the same value packed big-endian
PackHBigEndian(v) == <<v \div 256, v % 256>>

\* struct.pack('<H', v)
PackH(v) == <<v % 256, v \div 256>>

\* the same bytes read big-endian
UnpackHBigEndian(b) == 256 * b[1] + b[2]

\* struct.unpack('<H', b)
UnpackH(b) == b[1] + 256 * b[2]

-----------------------------------------------------------------------------
(* Sending *)

\* the packet send_msp_v1 builds (size <= 255 is checked by the caller)
PacketV1(code, data) ==
    MSP_V1_HEADER \o <<Len(data), code>> \o data
        \o <<calculate_checksum_v1(Len(data), code, data)>>

\* header_payload of send_msp_v2
HeaderPayloadV2(flag, code, data) ==
    <<flag>> \o PackH(code) \o PackH(Len(data)) \o data

PacketV2(code, data) ==
    MSP_V2_HEADER \o HeaderPayloadV2(0, code, data)
        \o <<calculate_crc_v2(HeaderPayloadV2(0, code, data))>>

-----------------------------------------------------------------------------
(* Receiving *)

NoneResult == [ok |-> FALSE, code |-> -1, data |-> <<>>, path |-> "TimedOut"]

\* ser.read(n): up to n bytes; a silence ends the read early with what it has
RECURSIVE SerRead(_, _)
SerRead(p, n) ==
    IF n = 0 THEN [got |-> <<>>, rest |-> p]
    ELSE IF p = <<>> THEN [got |-> <<>>, rest |-> <<>>]
    ELSE IF Head(p) = GAP THEN [got |-> <<>>, rest |-> Tail(p)]
    ELSE LET r == SerRead(Tail(p), n - 1)
         IN  [got |-> <<Head(p)>> \o r.got, rest |-> r.rest]

\* ord(b) raises TypeError unless b is exactly one byte
OrdFails(b) == Len(b) # 1

\* _read_v1_response that goes on to the next $M> frame after a checksum
\* mismatch
RECURSIVE read_v1_response_resuming(_)
read_v1_response_resuming(p) ==
    LET rsize == SerRead(p, 1) IN
    IF OrdFails(rsize.got)
    THEN [res |-> [NoneResult EXCEPT !.path = "DecodingV1"], rest |-> rsize.rest]
    ELSE
    LET rcode == SerRead(rsize.rest, 1) IN
    IF OrdFails(rcode.got)
    THEN [res |-> [NoneResult EXCEPT !.path = "DecodingV1"], rest |-> rcode.rest]
    ELSE
    LET size == rsize.got[1]
        code == rcode.got[1]
        rdata == SerRead(rcode.rest, size)
        rchk == SerRead(rdata.rest, 1)
        next == SerRead(rchk.rest, 3)
    IN
    IF OrdFails(rchk.got)
    THEN [res |-> [NoneResult EXCEPT !.path = "DecodingV1"], rest |-> rchk.rest]
    ELSE IF rchk.got[1] # calculate_checksum_v1(size, code, rdata.got)
    THEN IF next.got = MSP_V1_RESPONSE
         THEN read_v1_response_resuming(next.rest)
         ELSE [res |-> [NoneResult EXCEPT !.path = "DecodingV1"], rest |-> rchk.rest]
    ELSE [res |-> [ok |-> TRUE, code |-> code, data |-> rdata.got,
                   path |-> "DecodingV1"],
          rest |-> rchk.rest]

read_v1_response(p) ==
    LET rsize == SerRead(p, 1) IN
    IF OrdFails(rsize.got)
    THEN [res |-> [NoneResult EXCEPT !.path = "DecodingV1"], rest |-> rsize.rest]
    ELSE
    LET rcode == SerRead(rsize.rest, 1) IN
    IF OrdFails(rcode.got)
    THEN [res |-> [NoneResult EXCEPT !.path = "DecodingV1"], rest |-> rcode.rest]
    ELSE
    LET size == rsize.got[1]
        code == rcode.got[1]
        rdata == SerRead(rcode.rest, size)
        rchk == SerRead(rdata.rest, 1)
    IN
    IF OrdFails(rchk.got)
    THEN [res |-> [NoneResult EXCEPT !.path = "DecodingV1"], rest |-> rchk.rest]
    ELSE IF rchk.got[1] # calculate_checksum_v1(size, code, rdata.got)
    THEN [res |-> [NoneResult EXCEPT !.path = "DecodingV1"], rest |-> rchk.rest]
    ELSE [res |-> [ok |-> TRUE, code |-> code, data |-> rdata.got,
                   path |-> "DecodingV1"],
          rest |-> rchk.rest]

read_v2_response(p) ==
    LET rflag == SerRead(p, 1) IN
    IF OrdFails(rflag.got)
    THEN [res |-> [NoneResult EXCEPT !.path = "DecodingV2"], rest |-> rflag.rest]
    ELSE
    LET rhdr == SerRead(rflag.rest, 4) IN
    IF Len(rhdr.got) # 4      \* struct.unpack raises struct.error
    THEN [res |-> [NoneResult EXCEPT !.path = "DecodingV2"], rest |-> rhdr.rest]
    ELSE
    LET flag == rflag.got[1]
        code == UnpackH(SubSeq(rhdr.got, 1, 2))
        size == UnpackH(SubSeq(rhdr.got, 3, 4))
        rdata == SerRead(rhdr.rest, size)
        rcrc == SerRead(rdata.rest, 1)
        header_payload == <<flag>> \o PackH(code) \o PackH(size) \o rdata.got
    IN
    IF OrdFails(rcrc.got)
    THEN [res |-> [NoneResult EXCEPT !.path = "DecodingV2"], rest |-> rcrc.rest]
    ELSE IF rcrc.got[1] # calculate_crc_v2(header_payload)
    THEN [res |-> [NoneResult EXCEPT !.path = "DecodingV2"], rest |-> rcrc.rest]
    ELSE [res |-> [ok |-> TRUE, code |-> code, data |-> rdata.got,
                   path |-> "DecodingV2"],
          rest |-> rcrc.rest]
\* read_response that treats $M! as an unknown header and goes on scanning
RECURSIVE read_response_ignoring_error(_, _)
read_response_ignoring_error(p, iters) ==
    IF iters = 0 THEN [res |-> NoneResult, rest |-> p]
    ELSE
    LET byte == SerRead(p, 1) IN
    IF byte.got = <<>> THEN [res |-> NoneResult, rest |-> byte.rest]
    ELSE IF byte.got = <<36>> THEN
        LET h == SerRead(byte.rest, 2)
            header == <<36>> \o h.got
        IN  IF header = MSP_V1_RESPONSE THEN read_v1_response(h.rest)
            ELSE IF header = MSP_V2_RESPONSE THEN read_v2_response(h.rest)
            ELSE IF Len(h.got) < 2 THEN [res |-> NoneResult, rest |-> h.rest]
            ELSE read_response_ignoring_error(h.rest, iters - 1)
    ELSE read_response_ignoring_error(byte.rest, iters - 1)

\* read_response: the header scan.  iters is the number of loop iterations the
\* wall clock allows before the deadline; a read that returns nothing has
\* waited the whole serial timeout, which is the deadline, so the loop ends.
RECURSIVE read_response(_, _)
read_response(p, iters) ==
    IF iters = 0 THEN [res |-> NoneResult, rest |-> p]
    ELSE
    LET byte == SerRead(p, 1) IN
    IF byte.got = <<>> THEN [res |-> NoneResult, rest |-> byte.rest]
    ELSE IF byte.got = <<36>> THEN
        LET h == SerRead(byte.rest, 2)
            header == <<36>> \o h.got
        IN  IF header = MSP_V1_RESPONSE THEN read_v1_response(h.rest)
            ELSE IF header = MSP_V2_RESPONSE THEN read_v2_response(h.rest)
            ELSE IF header = MSP_ERROR
            THEN [res |-> [NoneResult EXCEPT !.path = "Rejected"], rest |-> h.rest]
            ELSE IF Len(h.got) < 2 THEN [res |-> NoneResult, rest |-> h.rest]
            ELSE read_response(h.rest, iters - 1)
    ELSE read_response(byte.rest, iters - 1)

-----------------------------------------------------------------------------
(* The byte-level state machine *)

\* a response frame as a device puts it on the line
ResponseV1(code, data) ==
    MSP_V1_RESPONSE \o SubSeq(PacketV1(code, data), 4, Len(PacketV1(code, data)))

ResponseV2(code, data) ==
    MSP_V2_RESPONSE \o SubSeq(PacketV2(code, data), 4, Len(PacketV2(code, data)))

\* what the line can do to a frame
Intact(f) == f
CutAt(f, k) == SubSeq(f, 1, k)
GapAt(f, k) == SubSeq(f, 1, k) \o <<GAP>> \o SubSeq(f, k + 1, Len(f))
FlipAt(f, k) == [f EXCEPT ![k] = Xor(f[k], 1)]

Garbled(f) ==
    {Intact(f)}
        \cup {CutAt(f, k) : k \in 1..(Len(f) - 1)}
        \cup {GapAt(f, k) : k \in 1..(Len(f) - 1)}
        \cup {FlipAt(f, k) : k \in 1..Len(f)}

ResponseFrames ==
    {ResponseV1(c, d) : c \in CodesV1, d \in Payloads}
        \cup {ResponseV2(c, d) : c \in CodesV2, d \in Payloads}
        \cup {MSP_ERROR}

NoiseCount(p) == Cardinality({i \in 1..Len(p) : p[i] \in NoiseItems \cup {GAP}})

\* the byte level at rest
CodecAtRest ==
    /\ port = <<>>
    /\ written = <<>>
    /\ ret = NoneResult
    /\ rdInput = <<>>
    /\ rdIters = 0

SendV1(code, data) ==
    /\ written = <<>>
    /\ port = <<>>
    /\ rdIters = 0
    /\ Len(data) <= 255
    /\ written' = PacketV1(code, data)
    /\ UNCHANGED <<port, ret, rdInput, rdIters>>
    /\ UNCHANGED missionVars
    /\ UNCHANGED sessVars

SendV2(code, data) ==
    /\ written = <<>>
    /\ port = <<>>
    /\ rdIters = 0
    /\ Len(data) <= 65535
    /\ written' = PacketV2(code, data)
    /\ UNCHANGED <<port, ret, rdInput, rdIters>>
    /\ UNCHANGED missionVars
    /\ UNCHANGED sessVars

\* a loop-back peer: the body of the request comes back behind the response
\* header of the same family
PeerEchoes ==
    /\ written # <<>>
    /\ port' = port \o <<36, written[2], 62>> \o SubSeq(written, 4, Len(written))
    /\ written' = <<>>
    /\ UNCHANGED <<ret, rdInput, rdIters>>
    /\ UNCHANGED missionVars
    /\ UNCHANGED sessVars

LineNoise(b) ==
    /\ written = <<>>
    /\ rdIters = 0
    /\ Len(port) < MaxNoise
    /\ port' = Append(port, b)
    /\ UNCHANGED <<written, ret, rdInput, rdIters>>
    /\ UNCHANGED missionVars
    /\ UNCHANGED sessVars

PeerSends(items) ==
    /\ written = <<>>
    /\ rdIters = 0
    /\ Len(port) <= MaxNoise
    /\ NoiseCount(port) = Len(port)
    /\ port' = port \o items
    /\ UNCHANGED <<written, ret, rdInput, rdIters>>
    /\ UNCHANGED missionVars
    /\ UNCHANGED sessVars

\* response headers on the line
HeaderCount(p) ==
    Cardinality({i \in 1..(Len(p) - 2) :
                    SubSeq(p, i, i + 2) \in {MSP_V1_RESPONSE, MSP_V2_RESPONSE, MSP_ERROR}})

\* the frame a device sends behind another one
SecondFrame == ResponseV1(1, <<>>)

\* a second response arrives behind the first before anything is read
PeerSendsNext ==
    /\ written = <<>>
    /\ rdIters = 0
    /\ Len(port) <= MaxFirst
    /\ HeaderCount(port) = 1
    /\ port' = port \o SecondFrame
    /\ UNCHANGED <<written, ret, rdInput, rdIters>>
    /\ UNCHANGED missionVars
    /\ UNCHANGED sessVars

ReadResponse(iters) ==
    /\ written = <<>>
    /\ port # <<>> \/ rdIters = 0
    /\ LET r == read_response(port, iters)
       IN  /\ ret' = r.res
           /\ port' = r.rest
    /\ rdInput' = port
    /\ rdIters' = iters
    /\ UNCHANGED written
    /\ UNCHANGED missionVars
    /\ UNCHANGED sessVars


-----------------------------------------------------------------------------
(* Bounds of the frame-level model *)

MaxSmall == 2       \* missions of 0..MaxSmall waypoints, and
NearFull == 1       \* missions of MAX_WAYPOINTS - NearFull .. MAX_WAYPOINTS
MaxCalls == 2       \* most calls on the mission and the session in one run
FracDen == 4        \* a coordinate is a multiple of 1/FracDen of a wire unit

-----------------------------------------------------------------------------
(* Program constants *)

MAX_WAYPOINTS == 60
MSP_WP == 118
MSP_SET_WP == 209
MSP_PID == 112
MSP_SET_PID == 202
ClearWindow == 5        \* min(success_count + 5, MAX_WAYPOINTS)
LatLonTol == 10         \* 1e-6 degrees, in wire units of 1e-7 degrees
AltTol == 10            \* 0.1 m, in wire units of 0.01 m
WireLatLon == 10000000  \* lat * 1e7, lat / 1e7
ExtLen == 21            \* struct '<BBiiihhhB'
BasicLen == 12          \* struct '<iii'

-----------------------------------------------------------------------------
(* Numbers.  A Python float coordinate is modelled exactly, as n + f/FracDen  *)
(* wire units (1e-7 degrees; 0.01 m for altitude) with 0 <= f < FracDen.      *)

Num(n, f) == [n |-> n, f |-> f]

Whole(n) == Num(n, 0)

\* int(x * scale): Python's int() truncates toward zero
ToWire(x) == IF x.n < 0 /\ x.f > 0 THEN x.n + 1 ELSE x.n

\* w / scale
FromWire(w) == Whole(w)

Leq(a, b) == a.n < b.n \/ (a.n = b.n /\ a.f <= b.f)

\* a - b > t wire units
DiffGt(a, b, t) == a.n > b.n + t \/ (a.n = b.n + t /\ a.f > b.f)

\* abs(a - b) > t
AbsDiffGt(a, b, t) == DiffGt(a, b, t) \/ DiffGt(b, a, t)

Degrees(d) == Whole(d * WireLatLon)

Metres(m) == Whole(m * 100)

-----------------------------------------------------------------------------
(* Waypoints *)

Waypoint(lat, lon, alt, action, param1, param2, param3, flag) ==
    [lat |-> lat, lon |-> lon, alt |-> alt, action |-> action,
     param1 |-> param1, param2 |-> param2, param3 |-> param3, flag |-> flag]

\* Waypoint(0, 0, 0, 0)
empty_wp == Waypoint(Whole(0), Whole(0), Whole(0), 0, 0, 0, 0, 0)

\* the test without its altitude limits
validate_lat_lon_only(lat, lon, alt) ==
    /\ Leq(Degrees(-90), lat) /\ Leq(lat, Degrees(90))
    /\ Leq(Degrees(-180), lon) /\ Leq(lon, Degrees(180))

validate_coordinates(lat, lon, alt) ==
    /\ Leq(Degrees(-90), lat) /\ Leq(lat, Degrees(90))
    /\ Leq(Degrees(-180), lon) /\ Leq(lon, Degrees(180))
    /\ Leq(Metres(-1000), alt) /\ Leq(alt, Metres(10000))

\* a payload on the wire: its length in bytes and its fields
Payload(len, wp_no, action, lat, lon, alt, p1, p2, p3, flag) ==
    [len |-> len, wp_no |-> wp_no, action |-> action, lat |-> lat, lon |-> lon,
     alt |-> alt, p1 |-> p1, p2 |-> p2, p3 |-> p3, flag |-> flag]

NoPayload == Payload(0, 0, 0, 0, 0, 0, 0, 0, 0, 0)

\* struct.pack('<B', wp_id)
WpRequest(wp_id) == Payload(1, wp_id, 0, 0, 0, 0, 0, 0, 0, 0)

\* struct.pack raises struct.error on a field out of its format's range
\* (B: 0..255, h: -32768..32767; every modelled coordinate fits i)
PackFails(wp_id, wp) ==
    \/ wp_id < 0 \/ wp_id > 255
    \/ wp.action < 0 \/ wp.action > 255
    \/ wp.flag < 0 \/ wp.flag > 255
    \/ \E q \in {wp.param1, wp.param2, wp.param3} : q < -32768 \/ q > 32767

\* the payload with the index of the next slot in it
PackWaypointNext(wp_id, wp) ==
    Payload(ExtLen, wp_id + 1, wp.action, ToWire(wp.lat), ToWire(wp.lon),
            ToWire(wp.alt), wp.param1, wp.param2, wp.param3, wp.flag)

\* struct.pack('<BBiiihhhB', wp_id, action, int(lat*1e7), int(lon*1e7),
\*             int(alt*100), param1, param2, param3, flag)
PackWaypoint(wp_id, wp) ==
    Payload(ExtLen, wp_id, wp.action, ToWire(wp.lat), ToWire(wp.lon),
            ToWire(wp.alt), wp.param1, wp.param2, wp.param3, wp.flag)

NoWaypoint == [some |-> FALSE, wp |-> empty_wp]

Some(wp) == [some |-> TRUE, wp |-> wp]

-----------------------------------------------------------------------------
(* The session at the frame level.  chan.mode is                              *)
(*   "device": a device that stores each waypoint written and answers every   *)
(*             request with one frame; read_response takes the oldest frame   *)
(*             in flight, as the byte stream is positional.                   *)
(*   "script": every read_response gets the outcome the environment picks:    *)
(*             the answer to the latest request, possibly off by a little,    *)
(*             or one of the ways of getting no data.                         *)

Frame(code, data) == [code |-> code, data |-> data]

NoFrame == [ok |-> FALSE, code |-> -1, data |-> NoPayload]

\* the waypoint in slot i of the device, as it answers MSP_WP
StoredAnswer(ch, i) ==
    LET w == ch.dev[i + 1] IN
    IF ch.fmt = "ext" THEN w
    ELSE Payload(BasicLen, 0, 0, w.lat, w.lon, w.alt, 0, 0, 0, 0)

\* the one frame the device sends in answer to a request
DeviceAnswer(ch, code, data) ==
    IF code = MSP_WP /\ data.wp_no < MAX_WAYPOINTS
    THEN Frame(MSP_WP, StoredAnswer(ch, data.wp_no))
    ELSE IF code = MSP_PID
    THEN Frame(MSP_PID, Payload(30, 0, 0, 0, 0, 0, 0, 0, 0, 0))
    ELSE Frame(code, NoPayload)

\* what the device keeps of a request
DeviceStores(ch, code, data) ==
    IF code = MSP_SET_WP /\ data.wp_no < MAX_WAYPOINTS
    THEN [ch.dev EXCEPT ![data.wp_no + 1] = data]
    ELSE ch.dev

\* conn.send_msp(code, data): raises when the port is gone; else one frame is
\* written, and the device acts on it
send_msp(ch, code, data) ==
    IF ~ch.up THEN [raised |-> TRUE, ch |-> ch]
    ELSE
    LET stored == [ch EXCEPT !.dev = DeviceStores(ch, code, data)]
    IN  [raised |-> FALSE,
         ch |-> [stored EXCEPT
                   !.txlog = Append(@, Frame(code, data)),
                   !.seq = @ + 1,
                   !.unpaired = @ \/ ch.awaiting,
                   !.awaiting = TRUE,
                   !.last = Frame(code, data),
                   !.rx = IF ch.mode = "device"
                          THEN Append(@, [f |-> DeviceAnswer(stored, code, data),
                                          req |-> ch.seq + 1])
                          ELSE @]]

\* the ways a scripted read_response comes back
NoDataKinds == {"timeout", "badsum", "rejected", "ioerror"}

TransportFailures == {"timeout", "badsum", "ioerror"}

Fields == {"lat", "lon", "alt"}

Deltas == {-11, -10, 10, 11}

Exact == [kind |-> "answer", field |-> "lat", delta |-> 0]

Outcomes ==
    {Exact}
        \cup {[kind |-> "answer", field |-> fd, delta |-> d] : fd \in Fields, d \in Deltas}
        \cup {[kind |-> k, field |-> "lat", delta |-> 0] :
                k \in NoDataKinds \cup {"wrongcode", "wrongid", "zero"}}

Shifted(data, o) ==
    IF o.field = "lat" THEN [data EXCEPT !.lat = @ + o.delta]
    ELSE IF o.field = "lon" THEN [data EXCEPT !.lon = @ + o.delta]
    ELSE [data EXCEPT !.alt = @ + o.delta]

\* the frame a scripted read_response decodes, for the outcomes that carry one
ScriptedFrame(ch, o) ==
    LET a == DeviceAnswer(ch, ch.last.code, ch.last.data) IN
    IF o.kind = "answer" THEN Frame(a.code, Shifted(a.data, o))
    ELSE IF o.kind = "wrongcode" THEN Frame(MSP_SET_WP, NoPayload)
    ELSE IF o.kind = "wrongid"
    THEN Frame(a.code, IF a.data.len = ExtLen
                       THEN [a.data EXCEPT !.wp_no = (@ + 1) % MAX_WAYPOINTS]
                       ELSE a.data)
    ELSE Frame(a.code, [a.data EXCEPT !.lat = 0, !.lon = 0])

\* conn.read_response(): (code, data), or (None, None), or MSPException when
\* the port is gone or the read fails
read_frame(ch, o) ==
    IF ~ch.up
    THEN [raised |-> TRUE, kind |-> "ioerror", res |-> NoFrame, ch |-> ch]
    ELSE IF ch.mode = "device"
    THEN IF ch.rx = <<>>
         THEN [raised |-> FALSE, kind |-> "timeout", res |-> NoFrame,
               ch |-> [ch EXCEPT !.awaiting = FALSE]]
         ELSE [raised |-> FALSE, kind |-> "frame",
               res |-> [ok |-> TRUE, code |-> Head(ch.rx).f.code,
                        data |-> Head(ch.rx).f.data],
               ch |-> [ch EXCEPT !.rx = Tail(@), !.awaiting = FALSE,
                                 !.crossed = @ \/ Head(ch.rx).req # ch.seq]]
    ELSE IF o.kind \in NoDataKinds
    THEN [raised |-> o.kind = "ioerror", kind |-> o.kind, res |-> NoFrame,
          ch |-> [ch EXCEPT !.awaiting = FALSE]]
    ELSE [raised |-> FALSE, kind |-> "frame",
          res |-> [ok |-> TRUE, code |-> ScriptedFrame(ch, o).code,
                   data |-> ScriptedFrame(ch, o).data],
          ch |-> [ch EXCEPT !.awaiting = FALSE]]

-----------------------------------------------------------------------------
(* mission.py *)

\* Waypoint(lat / 1e7, lon / 1e7, alt / 100.0, action, param1, param2, param3, flag)
UnpackExt(d) ==
    Waypoint(FromWire(d.lat), FromWire(d.lon), FromWire(d.alt), d.action,
             d.p1, d.p2, d.p3, d.flag)

\* Waypoint(lat / 1e7, lon / 1e7, alt / 100.0)
UnpackBasic(d) ==
    Waypoint(FromWire(d.lat), FromWire(d.lon), FromWire(d.alt), 1, 0, 0, 0, 0)

\* the decoding half of get_waypoint: lines 98-119
DecodeWaypoint(wp_id, res) ==
    IF res.ok /\ res.code = MSP_WP /\ res.data.len > 0
    THEN IF res.data.len >= ExtLen
         THEN IF res.data.wp_no = wp_id THEN Some(UnpackExt(res.data))
              ELSE NoWaypoint
         ELSE IF res.data.len >= BasicLen THEN Some(UnpackBasic(res.data))
         ELSE NoWaypoint
    ELSE NoWaypoint

\* get_waypoint(wp_id): every exception is caught and gives None
get_waypoint(ch, wp_id, o) ==
    IF wp_id < 0 \/ wp_id >= MAX_WAYPOINTS
    THEN [ch |-> ch, got |-> NoWaypoint, kind |-> "unsent", res |-> NoFrame]
    ELSE
    LET s == send_msp(ch, MSP_WP, WpRequest(wp_id)) IN
    IF s.raised
    THEN [ch |-> s.ch, got |-> NoWaypoint, kind |-> "ioerror", res |-> NoFrame]
    ELSE
    LET r == read_frame(s.ch, o) IN
    IF r.raised
    THEN [ch |-> r.ch, got |-> NoWaypoint, kind |-> "ioerror", res |-> NoFrame]
    ELSE [ch |-> r.ch, got |-> DecodeWaypoint(wp_id, r.res), kind |-> r.kind,
          res |-> r.res]

\* the check without its altitude term
VerificationFailedNoAlt(ver, wp) ==
    \/ AbsDiffGt(ver.lat, wp.lat, LatLonTol)
    \/ AbsDiffGt(ver.lon, wp.lon, LatLonTol)

\* lines 155-159: the read-back differs from what was meant
VerificationFailed(ver, wp) ==
    \/ AbsDiffGt(ver.lat, wp.lat, LatLonTol)
    \/ AbsDiffGt(ver.lon, wp.lon, LatLonTol)
    \/ AbsDiffGt(ver.alt, wp.alt, AltTol)

\* set_waypoint(wp_id, waypoint, validate): ok is its return value, ver the
\* waypoint its verification read decoded
set_waypoint(ch, wp_id, wp, v, o) ==
    IF wp_id < 0 \/ wp_id >= MAX_WAYPOINTS
    THEN [ch |-> ch, ok |-> FALSE, ver |-> NoWaypoint]
    ELSE IF v /\ ~validate_coordinates(wp.lat, wp.lon, wp.alt)
    THEN [ch |-> ch, ok |-> FALSE, ver |-> NoWaypoint]
    ELSE IF PackFails(wp_id, wp)
    THEN [ch |-> ch, ok |-> FALSE, ver |-> NoWaypoint]
    ELSE
    LET s == send_msp(ch, MSP_SET_WP, PackWaypoint(wp_id, wp)) IN
    IF s.raised THEN [ch |-> s.ch, ok |-> FALSE, ver |-> NoWaypoint]
    ELSE IF ~v THEN [ch |-> s.ch, ok |-> TRUE, ver |-> NoWaypoint]
    ELSE
    LET g == get_waypoint(s.ch, wp_id, o) IN
    IF g.got.some /\ VerificationFailed(g.got.wp, wp)
    THEN [ch |-> g.ch, ok |-> FALSE, ver |-> g.got]
    ELSE [ch |-> g.ch, ok |-> TRUE, ver |-> g.got]

\* lines 248-251: for i in range(success_count, min(success_count + 5, 60)):
\*                    self.set_waypoint(i, empty_wp, validate=False)
RECURSIVE ClearTrailing(_, _, _)
ClearTrailing(ch, from, to) ==
    IF from >= to THEN ch
    ELSE ClearTrailing(set_waypoint(ch, from, empty_wp, FALSE, Exact).ch, from + 1, to)

Min(a, b) == IF a <= b THEN a ELSE b

ClearUpTo(count) == Min(count + ClearWindow, MAX_WAYPOINTS)

\* line 240: a failed waypoint ends the upload
UploadAborts(ok, v) == ~ok /\ v

\* the test without the sentinel
KeepsAnyWaypoint(got) == got.some

\* line 274: the waypoint is kept
KeepsWaypoint(got) ==
    got.some /\ (got.wp.lat # Whole(0) \/ got.wp.lon # Whole(0))

-----------------------------------------------------------------------------
(* The frame-level state machine *)

\* short missions, and missions at and just under the capacity
SmallLens == 0..MaxSmall

FullLens == SmallLens \cup ((MAX_WAYPOINTS - NearFull)..MAX_WAYPOINTS)

\* what the device holds from before: nothing, a short mission, a full one
SmallDevLens == {0, MaxSmall + 1}

FullDevLens == SmallDevLens \cup {MAX_WAYPOINTS}

\* the waypoint add_waypoint put at position i of the mission
InitWp(i) ==
    Waypoint(Num(476062000 + 1000 * i, i % FracDen),
             Num(-1223321000 - 1000 * i, (i + 1) % FracDen),
             Num(5000 + 100 * i, (i % 2) * (FracDen - 1)),
             1, 500, 0, 0, 0)

InitMission(n) == [i \in 1..n |-> InitWp(i - 1)]

\* slot i of a device that holds a mission of d waypoints
DevSlot(i, d) ==
    IF i < d THEN Payload(ExtLen, i, 1, 100000000 + i, 200000000 + i, 1000 + i, 0, 0, 0, 0)
    ELSE Payload(ExtLen, i, 0, 0, 0, 0, 0, 0, 0, 0)

DevInit(d) == [i \in 1..MAX_WAYPOINTS |-> DevSlot(i - 1, d)]

\* a read-back is within the tolerance of the waypoint that was meant
WithinTolerance(ver, wp) ==
    /\ ~AbsDiffGt(ver.lat, wp.lat, LatLonTol)
    /\ ~AbsDiffGt(ver.lon, wp.lon, LatLonTol)
    /\ ~AbsDiffGt(ver.alt, wp.alt, AltTol)

\* the outcomes the environment may pick for the read of this step
StepOutcomes(reads, exactOnly) ==
    IF chan.mode = "device" \/ ~reads THEN {Exact}
    ELSE IF exactOnly THEN {o \in Outcomes : o.delta = 0}
    ELSE Outcomes

StartCall(name) ==
    /\ pc = "idle"
    /\ calls < MaxCalls
    /\ calls' = calls + 1
    /\ op' = name
    /\ loadedAtCall' = mission_loaded
    /\ allVerified' = TRUE
    /\ mismatchAt' = -1
    /\ dlReads' = <<>>

\* a mission of one of the lengths lens, built by add_waypoint and never
\* synchronized, on a session to a device holding one of devlens waypoints
MissionInit(lens, devlens, callsMade) ==
    /\ \E n \in lens : waypoints = InitMission(n)
    /\ mission_loaded = FALSE
    /\ pc = "idle"
    /\ op = "new"
    /\ idx = 0
    /\ success_count = 0
    /\ validate = FALSE
    /\ result = FALSE
    /\ \E m \in {"device", "script"}, fm \in {"ext", "basic"}, d \in devlens :
          chan = [up |-> TRUE, mode |-> m, fmt |-> fm, dev |-> DevInit(d),
                  rx |-> <<>>, txlog |-> <<>>, seq |-> 0, awaiting |-> FALSE,
                  unpaired |-> FALSE, crossed |-> FALSE,
                  last |-> Frame(0, NoPayload)]
    /\ calls = callsMade
    /\ allVerified = TRUE
    /\ mismatchAt = -1
    /\ dlReads = <<>>
    /\ loadedAtCall = FALSE

\* upload_mission(validate), lines 224-231
UploadBegin(v) ==
    /\ StartCall("upload")
    /\ validate' = v
    /\ idx' = 0
    /\ success_count' = 0
    /\ chan' = [chan EXCEPT !.txlog = <<>>]
    /\ result' = FALSE
    /\ pc' = IF waypoints = <<>> THEN "idle" ELSE "uploading"
    /\ UNCHANGED <<waypoints, mission_loaded>>
    /\ UNCHANGED codecVars
    /\ UNCHANGED sessVars

\* one pass of the loop of lines 235-245
UploadStep(o) ==
    /\ pc = "uploading"
    /\ o \in StepOutcomes(validate, FALSE)
    /\ LET wp == waypoints[idx + 1]
           r == set_waypoint(chan, idx, wp, validate, o)
       IN  /\ chan' = r.ch
           /\ allVerified' = (allVerified /\ r.ver.some /\ WithinTolerance(r.ver.wp, wp))
           /\ mismatchAt' = IF r.ver.some /\ ~WithinTolerance(r.ver.wp, wp)
                            THEN idx ELSE mismatchAt
           /\ IF UploadAborts(r.ok, validate)
              THEN /\ pc' = "idle"
                   /\ result' = FALSE
                   /\ UNCHANGED <<idx, success_count>>
              ELSE /\ success_count' = IF r.ok THEN success_count + 1 ELSE success_count
                   /\ idx' = idx + 1
                   /\ pc' = IF idx + 1 = Len(waypoints) THEN "clearing" ELSE "uploading"
                   /\ UNCHANGED result
    /\ UNCHANGED <<waypoints, mission_loaded, op, validate, calls, dlReads, loadedAtCall>>
    /\ UNCHANGED codecVars
    /\ UNCHANGED sessVars

\* lines 247-259: clear the trailing slots, then the verdict
UploadFinish ==
    /\ pc = "clearing"
    /\ chan' = IF success_count < MAX_WAYPOINTS
               THEN ClearTrailing(chan, success_count, ClearUpTo(success_count))
               ELSE chan
    /\ IF success_count = Len(waypoints)
       THEN mission_loaded' = TRUE /\ result' = TRUE
       ELSE result' = FALSE /\ UNCHANGED mission_loaded
    /\ pc' = "idle"
    /\ UNCHANGED <<waypoints, op, idx, success_count, validate, calls, allVerified,
                   mismatchAt, dlReads, loadedAtCall>>
    /\ UNCHANGED codecVars
    /\ UNCHANGED sessVars

\* download_mission, lines 267-269
DownloadBegin ==
    /\ StartCall("download")
    /\ waypoints' = <<>>
    /\ idx' = 0
    /\ chan' = [chan EXCEPT !.txlog = <<>>]
    /\ result' = FALSE
    /\ pc' = "downloading"
    /\ UNCHANGED <<mission_loaded, success_count, validate>>
    /\ UNCHANGED codecVars
    /\ UNCHANGED sessVars

\* one pass of the loop of lines 272-277, and lines 279-281 when it ends
DownloadStep(o) ==
    /\ pc = "downloading"
    /\ o \in StepOutcomes(TRUE, TRUE)
    /\ LET g == get_waypoint(chan, idx, o)
           more == KeepsWaypoint(g.got) /\ idx + 1 < MAX_WAYPOINTS
       IN  /\ chan' = g.ch
           /\ dlReads' = Append(dlReads, [kind |-> g.kind, res |-> g.res])
           /\ waypoints' = IF KeepsWaypoint(g.got) THEN Append(waypoints, g.got.wp)
                           ELSE waypoints
           /\ idx' = idx + 1
           /\ IF more
              THEN UNCHANGED <<pc, mission_loaded, result>>
              ELSE pc' = "idle" /\ mission_loaded' = TRUE /\ result' = TRUE
    /\ UNCHANGED <<op, success_count, validate, calls, allVerified, mismatchAt,
                   loadedAtCall>>
    /\ UNCHANGED codecVars
    /\ UNCHANGED sessVars

\* clear_mission
ClearMission ==
    /\ StartCall("clear")
    /\ waypoints' = <<>>
    /\ mission_loaded' = FALSE
    /\ result' = TRUE
    /\ UNCHANGED <<pc, idx, success_count, validate, chan>>
    /\ UNCHANGED codecVars
    /\ UNCHANGED sessVars

\* Config.get_pid_values: result is whether it returned a non-empty dict
get_pid_values(ch, o) ==
    LET s == send_msp(ch, MSP_PID, NoPayload) IN
    IF s.raised THEN [ch |-> s.ch, some |-> FALSE]
    ELSE
    LET r == read_frame(s.ch, o) IN
    [ch |-> r.ch,
     some |-> ~r.raised /\ r.res.ok /\ r.res.code = MSP_PID /\ r.res.data.len >= 3]

GetPidValues(o) ==
    /\ StartCall("get_pid_values")
    /\ o \in StepOutcomes(TRUE, TRUE)
    /\ LET g == get_pid_values([chan EXCEPT !.txlog = <<>>], o)
       IN  chan' = g.ch /\ result' = g.some
    /\ UNCHANGED <<waypoints, mission_loaded, pc, idx, success_count, validate>>
    /\ UNCHANGED codecVars
    /\ UNCHANGED sessVars

\* Config.set_pid_values
SetPidValues(o) ==
    /\ StartCall("set_pid_values")
    /\ o \in StepOutcomes(TRUE, TRUE)
    /\ LET g == get_pid_values([chan EXCEPT !.txlog = <<>>], o)
           s == send_msp(g.ch, MSP_SET_PID, Payload(30, 0, 0, 0, 0, 0, 0, 0, 0, 0))
       IN  IF ~g.some THEN chan' = g.ch /\ result' = FALSE
           ELSE chan' = s.ch /\ result' = ~s.raised
    /\ UNCHANGED <<waypoints, mission_loaded, pc, idx, success_count, validate>>
    /\ UNCHANGED codecVars
    /\ UNCHANGED sessVars

\* the serial port goes away: every later write and read raises
ChannelFails ==
    /\ chan.up
    /\ chan' = [chan EXCEPT !.up = FALSE]
    /\ UNCHANGED <<waypoints, mission_loaded, pc, op, idx, success_count, validate,
                   result, calls, allVerified, mismatchAt, dlReads, loadedAtCall>>
    /\ UNCHANGED codecVars
    /\ UNCHANGED sessVars

\* no local edit made yet
\* no list of positions passed
NoCoords == [k |-> 0, bad |-> 0]

\* no survey asked for
NoSurvey ==
    [lat |-> 0, lon |-> 0, alt |-> 0, lines |-> 0, dlat |-> 0, half |-> 0, step |-> 0]

NoArgs ==
    [n |-> 0, name |-> "none", index |-> 0, wp |-> empty_wp, file |-> "none",
     coords |-> NoCoords, survey |-> NoSurvey]

Threads == {1, 2}

\* no thread has called anything yet
ThreadsAtRest ==
    thr = [pc |-> [t \in Threads |-> "idle"],
           rounds |-> [t \in Threads |-> 0],
           got |-> [t \in Threads |-> NoneResult],
           log |-> <<>>]

MSP_STATUS == 101
MSP_SET_RAW_RC == 200

PWM_MIN == 1000
PWM_NEUTRAL == 1500
PWM_MAX == 2000
ARM_THRESHOLD == 1300

\* Control.__init__, lines 12-17; only throttle and yaw ever leave neutral in
\* the operations modelled
NewControl ==
    [last_throttle |-> PWM_NEUTRAL, last_yaw |-> PWM_NEUTRAL, safety_enabled |-> TRUE,
     is_armed |-> FALSE, tx |-> <<>>, op |-> "new", flag |-> FALSE, percent |-> 0,
     env |-> [status |-> "none", fails |-> "never"], result |-> FALSE,
     raised |-> FALSE, n |-> 0, txAtCall |-> 0, safetyAtCall |-> TRUE]

\* no altitude given yet
NoAltitude ==
    [stage |-> "none", cm |-> 0, alt |-> [m |-> 0, s |-> 0], wire |-> 0,
     back |-> [m |-> 0, s |-> 0]]

\* a Mission with no waypoints and no file written yet
NoFile ==
    [stage |-> "editing", waypoints |-> <<>>, saved |-> FALSE,
     file |-> [exists |-> FALSE, waypoints |-> <<>>],
     loaded |-> FALSE, back |-> <<>>]

\* Sensors.__init__, lines 12-15, and no call made yet
NewSensors ==
    [calibration_in_progress |-> FALSE, tx |-> <<>>, steps |-> <<>>, op |-> "new",
     include_mag |-> FALSE, result |-> FALSE, n |-> 0]

ClientAtRest ==
    /\ ThreadsAtRest /\ ctl = NewControl /\ fx = NoAltitude /\ disk = NoFile
    /\ cal = NewSensors

\* a session that was opened and stands on V1, with nothing sent
SessAtRest ==
    /\ ClientAtRest
    /\ args = NoArgs
    /\ sess = [state |-> "ready", v2 |-> FALSE, open |-> TRUE, escaped |-> "none",
               probe |-> "none", tx |-> <<>>, raised |-> "none", sends |-> 0,
               call |-> [code |-> 0, len |-> 0, force_v1 |-> FALSE], method |-> "none"]

\* short missions, up to MaxCalls calls
Init == MissionInit(SmallLens, SmallDevLens, 0) /\ CodecAtRest /\ SessAtRest

\* missions of every modelled length up to the capacity, one call
FullInit == MissionInit(FullLens, FullDevLens, MaxCalls - 1) /\ CodecAtRest /\ SessAtRest

Next ==
    \/ \E v \in BOOLEAN : UploadBegin(v)
    \/ \E o \in Outcomes : UploadStep(o)
    \/ UploadFinish
    \/ DownloadBegin
    \/ \E o \in Outcomes : DownloadStep(o)
    \/ ClearMission
    \/ \E o \in Outcomes : GetPidValues(o)
    \/ \E o \in Outcomes : SetPidValues(o)
    \/ ChannelFails

Spec == Init /\ [][Next]_vars

FullSpec == FullInit /\ [][Next]_vars

-----------------------------------------------------------------------------
(* Local edits of the mission: add_waypoint, insert_waypoint, remove_waypoint, *)
(* load_mission_from_file                                                      *)

MaxEdits == 1       \* most local edits in one run

\* waypoints a caller may pass: in range, on the limits, just outside a limit,
\* and in range with a parameter struct.pack cannot hold
WpOk == InitWp(7)
WpEdge == Waypoint(Degrees(90), Degrees(-180), Metres(-1000), 1, 0, 0, 0, 0)
WpLatOver == [WpOk EXCEPT !.lat = Num(900000000, 1)]
WpLonUnder == [WpOk EXCEPT !.lon = Num(-1800000001, FracDen - 1)]
WpAltOver == [WpOk EXCEPT !.alt = Whole(1000001)]
WpAltUnder == [WpOk EXCEPT !.alt = Whole(-100001)]
WpBadParam == [WpOk EXCEPT !.param1 = 40000]
WpLatFar == [WpOk EXCEPT !.lat = Degrees(91)]

EditWps == {WpOk, WpEdge, WpLatOver, WpLonUnder, WpAltOver, WpAltUnder, WpBadParam}

\* list.insert(index, wp) for 0 <= index <= len
InsertAt(wps, index, wp) ==
    SubSeq(wps, 1, index) \o <<wp>> \o SubSeq(wps, index + 1, Len(wps))

\* list.pop(index) for 0 <= index < len
PopAt(wps, index) ==
    SubSeq(wps, 1, index) \o SubSeq(wps, index + 2, Len(wps))

\* add_waypoint with > for >= in the capacity test
add_waypoint_above_capacity(wps, wp) ==
    IF Len(wps) > MAX_WAYPOINTS THEN [wps |-> wps, ok |-> FALSE]
    ELSE IF ~validate_coordinates(wp.lat, wp.lon, wp.alt) THEN [wps |-> wps, ok |-> FALSE]
    ELSE [wps |-> Append(wps, wp), ok |-> TRUE]

\* add_waypoint: the list afterwards and the value returned
add_waypoint(wps, wp) ==
    IF Len(wps) >= MAX_WAYPOINTS THEN [wps |-> wps, ok |-> FALSE]
    ELSE IF ~validate_coordinates(wp.lat, wp.lon, wp.alt) THEN [wps |-> wps, ok |-> FALSE]
    ELSE [wps |-> Append(wps, wp), ok |-> TRUE]

insert_waypoint(wps, index, wp) ==
    IF index < 0 \/ index > Len(wps) THEN [wps |-> wps, ok |-> FALSE]
    ELSE IF Len(wps) >= MAX_WAYPOINTS THEN [wps |-> wps, ok |-> FALSE]
    ELSE IF ~validate_coordinates(wp.lat, wp.lon, wp.alt) THEN [wps |-> wps, ok |-> FALSE]
    ELSE [wps |-> InsertAt(wps, index, wp), ok |-> TRUE]

remove_waypoint(wps, index) ==
    IF index < 0 \/ index >= Len(wps) THEN [wps |-> wps, ok |-> FALSE]
    ELSE [wps |-> PopAt(wps, index), ok |-> TRUE]

\* a mission file: whether open() and json.load succeed, and its 'waypoints'
\* entries, each a dict that has the keys lat, lon, alt or lacks one
FileEntry(wp) == [keys |-> TRUE, wp |-> wp]
FileNames == {"missing", "one", "latover", "toomany", "broken"}

FileReadable(file) == file # "missing"

FileEntries(file) ==
    IF file = "one" THEN <<FileEntry(WpOk)>>
    ELSE IF file = "latover" THEN <<FileEntry(WpOk), FileEntry(WpLatFar)>>
    ELSE IF file = "toomany"
    THEN [i \in 1..(MAX_WAYPOINTS + 1) |-> FileEntry(InitWp(i - 1))]
    ELSE IF file = "broken"
    THEN <<FileEntry(WpOk), [keys |-> FALSE, wp |-> empty_wp], FileEntry(WpEdge)>>
    ELSE <<>>

\* the loop of lines 430-432: Waypoint.from_dict raises KeyError on an entry
\* without lat, lon or alt, and the entries before it stay in the list
RECURSIVE AppendEntries(_, _, _)
AppendEntries(wps, entries, i) ==
    IF i > Len(entries) THEN [wps |-> wps, ok |-> TRUE]
    ELSE IF ~entries[i].keys THEN [wps |-> wps, ok |-> FALSE]
    ELSE AppendEntries(Append(wps, entries[i].wp), entries, i + 1)

\* load_mission_from_file: the list, the loaded bit and the value returned
load_mission_from_file(wps, loaded, file) ==
    IF ~FileReadable(file) THEN [wps |-> wps, loaded |-> loaded, ok |-> FALSE]
    ELSE LET r == AppendEntries(<<>>, FileEntries(file), 1)
         IN  [wps |-> r.wps, loaded |-> FALSE, ok |-> r.ok]

\* a local edit is called: no frame is sent, the session is not used
EditCallWith(name, index, wp, file, coords, survey) ==
    /\ pc = "idle"
    /\ args.n < MaxEdits
    /\ args' = [n |-> args.n + 1, name |-> name, index |-> index, wp |-> wp,
                file |-> file, coords |-> coords, survey |-> survey]
    /\ op' = name
    /\ UNCHANGED <<pc, idx, success_count, validate, chan, calls, allVerified,
                   mismatchAt, dlReads, loadedAtCall, sess>>
    /\ UNCHANGED clientVars
    /\ UNCHANGED codecVars

EditCall(name, index, wp, file) ==
    EditCallWith(name, index, wp, file, NoCoords, NoSurvey)

AddWaypoint(wp) ==
    /\ EditCall("add_waypoint", 0, wp, "none")
    /\ waypoints' = add_waypoint(waypoints, wp).wps
    /\ result' = add_waypoint(waypoints, wp).ok
    /\ UNCHANGED mission_loaded

InsertWaypoint(index, wp) ==
    /\ EditCall("insert_waypoint", index, wp, "none")
    /\ waypoints' = insert_waypoint(waypoints, index, wp).wps
    /\ result' = insert_waypoint(waypoints, index, wp).ok
    /\ UNCHANGED mission_loaded

RemoveWaypoint(index) ==
    /\ EditCall("remove_waypoint", index, empty_wp, "none")
    /\ waypoints' = remove_waypoint(waypoints, index).wps
    /\ result' = remove_waypoint(waypoints, index).ok
    /\ UNCHANGED mission_loaded

LoadMissionFromFile(file) ==
    /\ EditCall("load_mission_from_file", 0, empty_wp, file)
    /\ LET r == load_mission_from_file(waypoints, mission_loaded, file)
       IN  /\ waypoints' = r.wps
           /\ mission_loaded' = r.loaded
           /\ result' = r.ok

\* indices a caller may pass: in the list, at its ends, just outside
EditIndices == {-1, 0, Len(waypoints) - 1, Len(waypoints), Len(waypoints) + 1}

\* missions of every modelled length, edited and then uploaded once to a
\* device that stores what it is sent
EditInit ==
    /\ MissionInit(FullLens, {0}, MaxCalls - 1)
    /\ chan.mode = "device"
    /\ chan.fmt = "ext"
    /\ CodecAtRest
    /\ SessAtRest

EditNext ==
    \/ \E wp \in EditWps : AddWaypoint(wp)
    \/ \E i \in EditIndices, wp \in EditWps : InsertWaypoint(i, wp)
    \/ \E i \in EditIndices : RemoveWaypoint(i)
    \/ \E f \in FileNames : LoadMissionFromFile(f)
    \/ \E v \in BOOLEAN : UploadBegin(v)
    \/ \E o \in Outcomes : UploadStep(o)
    \/ UploadFinish

EditSpec == EditInit /\ [][EditNext]_vars

-----------------------------------------------------------------------------
(* Missions built by the planning helpers, and sequences of local edits       *)

WAYPOINT_ACTION_WAYPOINT == 1
WAYPOINT_ACTION_RTH == 4

\* the positions a caller passes to create_simple_mission: k triples, those
\* add_waypoint gave the mission in Init, with the triple at position bad
\* (none when bad = 0) at latitude 91
SimpleLens == {0, 1, 3, MAX_WAYPOINTS - 1, MAX_WAYPOINTS, MAX_WAYPOINTS + 1}

SimpleCoord(c, i) ==
    IF i = c.bad THEN [lat |-> Degrees(91), lon |-> InitWp(i - 1).lon, alt |-> InitWp(i - 1).alt]
    ELSE [lat |-> InitWp(i - 1).lat, lon |-> InitWp(i - 1).lon, alt |-> InitWp(i - 1).alt]

CoordLists == {[k |-> k, bad |-> b] : k \in SimpleLens, b \in {0, 2}}

\* the waypoint create_simple_mission passes to add_waypoint for triple i,
\* lines 340-342
SimpleWp(c, i, speed) ==
    Waypoint(SimpleCoord(c, i).lat, SimpleCoord(c, i).lon, SimpleCoord(c, i).alt,
             WAYPOINT_ACTION_WAYPOINT, speed, 0, 0, 0)

\* the return-to-home waypoint at the last triple, lines 346-349
SimpleRth(c) ==
    Waypoint(SimpleCoord(c, c.k).lat, SimpleCoord(c, c.k).lon, SimpleCoord(c, c.k).alt,
             WAYPOINT_ACTION_RTH, 0, 0, 0, 0)

\* the list after the first n triples were added
SimpleAdded(c, n, speed) == [i \in 1..n |-> SimpleWp(c, i, speed)]

\* the loop of lines 339-343 returns False at triple i: add_waypoint refuses it
\* on the list the triples before it made
SimpleRefusedAt(c, i, speed) ==
    ~add_waypoint(SimpleAdded(c, i - 1, speed), SimpleWp(c, i, speed)).ok

\* create_simple_mission: clear_mission, the triples in order up to the first
\* that add_waypoint refuses, then the return-to-home waypoint, whose
\* add_waypoint value is not looked at
create_simple_mission(c, speed) ==
    LET refused == {i \in 1..c.k : SimpleRefusedAt(c, i, speed)}
    IN  IF refused # {}
        THEN [wps |-> SimpleAdded(c, (CHOOSE i \in refused : \A j \in refused : i <= j) - 1,
                                  speed),
              ok |-> FALSE]
        ELSE IF c.k > 0
        THEN [wps |-> add_waypoint(SimpleAdded(c, c.k, speed), SimpleRth(c)).wps, ok |-> TRUE]
        ELSE [wps |-> <<>>, ok |-> TRUE]

\* create_survey_mission, lines 354-395.  The conversion from metres to
\* degrees is floating point and only feeds add_waypoint; a survey is given
\* here by what the conversion yields, in wire units: the centre, the number
\* of lines, half the height as a latitude offset, half the width and the
\* line spacing as longitude offsets.
Survey(lat, lon, alt, lines, dlat, half, step) ==
    [lat |-> lat, lon |-> lon, alt |-> alt, lines |-> lines, dlat |-> dlat,
     half |-> half, step |-> step]

\* candidate j (from 1) of the survey: two per line, even lines bottom to top,
\* odd lines top to bottom
SurveyWp(s, j, speed) ==
    LET line == (j - 1) \div 2
        first == (j - 1) % 2 = 0
        up == (line % 2 = 0) = first
    IN  Waypoint(Whole(IF up THEN s.lat - s.dlat ELSE s.lat + s.dlat),
                 Whole(s.lon - s.half + line * s.step), Whole(s.alt),
                 WAYPOINT_ACTION_WAYPOINT, speed, 0, 0, 0)

SurveyRth(s) ==
    Waypoint(Whole(s.lat), Whole(s.lon), Whole(s.alt), WAYPOINT_ACTION_RTH, 0, 0, 0, 0)

\* the candidates add_waypoint accepts: those with valid coordinates, while
\* the list is below capacity
RECURSIVE SurveyAdded(_, _, _, _)
SurveyAdded(s, wps, j, speed) ==
    IF j > 2 * s.lines THEN add_waypoint(wps, SurveyRth(s)).wps
    ELSE SurveyAdded(s, add_waypoint(wps, SurveyWp(s, j, speed)).wps, j + 1, speed)

create_survey_mission(s, speed) == [wps |-> SurveyAdded(s, <<>>, 1, speed), ok |-> TRUE]

\* surveys a caller may ask for: small, over the pole, and more lines than the
\* mission can hold
Surveys ==
    {Survey(476062000, -1223321000, 5000, 2, 4500, 9000, 18000),
     Survey(899999000, 1790000000, 5000, 2, 4500000, 90000000, 180000000),
     Survey(100000000, 100000000, 5000, MAX_WAYPOINTS \div 2 + 1, 4500, 900000, 60000)}

CreateSimpleMission(c) ==
    /\ EditCallWith("create_simple_mission", 0, empty_wp, "none", c, NoSurvey)
    /\ waypoints' = create_simple_mission(c, 500).wps
    /\ result' = create_simple_mission(c, 500).ok
    /\ mission_loaded' = FALSE

CreateSurveyMission(s) ==
    /\ EditCallWith("create_survey_mission", 0, empty_wp, "none", NoCoords, s)
    /\ waypoints' = create_survey_mission(s, 500).wps
    /\ result' = create_survey_mission(s, 500).ok
    /\ mission_loaded' = FALSE

\* clear_mission, lines 215-220, as a local edit
ClearLocal ==
    /\ EditCall("clear_mission", 0, empty_wp, "none")
    /\ waypoints' = <<>>
    /\ result' = TRUE
    /\ mission_loaded' = FALSE

\* missions of every modelled length under local edits only
PlanInit == EditInit

PlanNext ==
    \/ \E wp \in EditWps : AddWaypoint(wp)
    \/ \E i \in EditIndices, wp \in EditWps : InsertWaypoint(i, wp)
    \/ \E i \in EditIndices : RemoveWaypoint(i)
    \/ \E f \in FileNames : LoadMissionFromFile(f)
    \/ ClearLocal
    \/ \E c \in CoordLists : CreateSimpleMission(c)
    \/ \E s \in Surveys : CreateSurveyMission(s)

PlanSpec == PlanInit /\ [][PlanNext]_vars

-----------------------------------------------------------------------------
(* The byte-level specification *)

\* the frame level at rest
MissionAtRest ==
    /\ waypoints = <<>>
    /\ mission_loaded = FALSE
    /\ pc = "idle"
    /\ op = "new"
    /\ idx = 0
    /\ success_count = 0
    /\ validate = FALSE
    /\ result = FALSE
    /\ chan = [up |-> TRUE, mode |-> "device", fmt |-> "ext", dev |-> DevInit(0),
               rx |-> <<>>, txlog |-> <<>>, seq |-> 0, awaiting |-> FALSE,
               unpaired |-> FALSE, crossed |-> FALSE, last |-> Frame(0, NoPayload)]
    /\ calls = 0
    /\ allVerified = TRUE
    /\ mismatchAt = -1
    /\ dlReads = <<>>
    /\ loadedAtCall = FALSE

CodecInit == CodecAtRest /\ MissionAtRest /\ SessAtRest

CodecNext ==
    \/ \E c \in CodesV1, d \in Payloads : SendV1(c, d)
    \/ \E c \in CodesV2, d \in Payloads : SendV2(c, d)
    \/ PeerEchoes
    \/ \E b \in NoiseItems \cup {GAP} : LineNoise(b)
    \/ \E f \in ResponseFrames : \E g \in Garbled(f) : PeerSends(g)
    \/ PeerSendsNext
    \/ \E n \in 1..MaxIters : ReadResponse(n)

CodecSpec == CodecInit /\ [][CodecNext]_vars

-----------------------------------------------------------------------------
(* The session: ConnectionManager.__init__, _detect_msp_version, send_msp *)

MaxSends == 2       \* most send_msp calls in one run

ProbeCode == 1      \* self.send_msp_v2(1, b'')

\* what ser.write / ser.read may raise
Raises == {"none", "SerialException", "OSError"}

\* send_msp_v1 / send_msp_v2 / read_response: except serial.SerialException
\* raises MSPException, any other exception passes through
Wrapped(e) == IF e = "SerialException" THEN "MSPException" ELSE e

\* an except clause for MSPException alone
ProbeCatchesMspOnly(e) == e = "MSPException"

\* _detect_msp_version, line 58: a bare except
ProbeCatches(e) == TRUE

SessClosed ==
    /\ ClientAtRest
    /\ args = NoArgs
    /\ sess = [state |-> "closed", v2 |-> FALSE, open |-> FALSE, escaped |-> "none",
               probe |-> "none", tx |-> <<>>, raised |-> "none", sends |-> 0,
               call |-> [code |-> 0, len |-> 0, force_v1 |-> FALSE], method |-> "none"]

\* _connect: serial.Serial(...) succeeds, or MSPException reaches the caller
Connect(opens) ==
    /\ sess.state = "closed"
    /\ sess' = IF opens
               THEN [sess EXCEPT !.state = "probing_send", !.open = TRUE]
               ELSE [sess EXCEPT !.state = "failed", !.escaped = "MSPException"]
    /\ UNCHANGED args
    /\ UNCHANGED clientVars
    /\ UNCHANGED codecVars
    /\ UNCHANGED missionVars

\* how the probe ends when e was raised in it
ProbeEnds(e, how) ==
    IF ProbeCatches(Wrapped(e))
    THEN [sess EXCEPT !.state = "ready", !.v2 = FALSE, !.probe = how]
    ELSE [sess EXCEPT !.state = "failed", !.escaped = Wrapped(e), !.probe = how]

\* line 51: self.send_msp_v2(1, b'')
ProbeSend(e) ==
    /\ sess.state = "probing_send"
    /\ written = <<>>
    /\ IF e = "none"
       THEN /\ written' = PacketV2(ProbeCode, <<>>)
            /\ sess' = [sess EXCEPT !.state = "probing_read"]
       ELSE /\ sess' = ProbeEnds(e, "write_error")
            /\ UNCHANGED written
    /\ UNCHANGED <<port, ret, rdInput, rdIters, args>>
    /\ UNCHANGED clientVars
    /\ UNCHANGED missionVars

\* a device that does not know the frame says nothing
PeerDrops ==
    /\ written # <<>>
    /\ written' = <<>>
    /\ UNCHANGED <<port, ret, rdInput, rdIters>>
    /\ UNCHANGED missionVars
    /\ UNCHANGED sessVars

\* lines 52-57: code, data = self.read_response(); code is not None
ProbeRead(iters, e) ==
    /\ sess.state = "probing_read"
    /\ written = <<>>
    /\ IF e = "none"
       THEN LET r == read_response(port, iters)
            IN  /\ ret' = r.res
                /\ port' = r.rest
                /\ rdInput' = port
                /\ rdIters' = iters
                /\ sess' = [sess EXCEPT !.state = "ready", !.v2 = r.res.ok,
                                        !.probe = "read"]
       ELSE /\ sess' = ProbeEnds(e, "read_error")
            /\ UNCHANGED <<port, ret, rdInput, rdIters>>
    /\ UNCHANGED <<written, args>>
    /\ UNCHANGED clientVars
    /\ UNCHANGED missionVars

SessInit == CodecAtRest /\ MissionAtRest /\ SessClosed

\* the deadline of the probe's read passes after one scan iteration or after
\* the most
ProbeIters == {1, MaxIters}

\* what a device answers to the probe: a response to code 1 in either
\* family, or an error frame
ProbeResponses ==
    {ResponseV1(ProbeCode, d) : d \in Payloads}
        \cup {ResponseV2(ProbeCode, d) : d \in Payloads}
        \cup {MSP_ERROR}

SessNext ==
    \/ \E opens \in BOOLEAN : Connect(opens)
    \/ \E e \in Raises : ProbeSend(e)
    \/ PeerEchoes
    \/ PeerDrops
    \/ \E b \in NoiseItems \cup {GAP} : sess.open /\ sess.state # "ready" /\ LineNoise(b)
    \/ \E f \in ProbeResponses : \E g \in Garbled(f) :
          sess.open /\ sess.state # "ready" /\ PeerSends(g)
    \/ \E n \in ProbeIters, e \in Raises : ProbeRead(n, e)

SessSpec == SessInit /\ [][SessNext]_vars

-----------------------------------------------------------------------------
(* send_msp on a session that was opened.  A payload is given by its length *)

SendCodes == {1, 255, 256, 4660}
SendLens == {0, 255, 256, 65535, 65536}

NoFrameSent == [header |-> <<>>, code |-> 0, len |-> 0]

\* send_msp_v1 without the size check of lines 87-88
send_msp_v1_unchecked(code, n) ==
    IF code > 255 \/ n > 255
    THEN [raised |-> "ValueError", frame |-> NoFrameSent]
    ELSE [raised |-> "none",
          frame |-> [header |-> MSP_V1_HEADER, code |-> code, len |-> n]]

\* send_msp_v1: what is written, or what is raised
send_msp_v1(code, n) ==
    IF n > 255 THEN [raised |-> "MSPException", frame |-> NoFrameSent]
    ELSE IF code > 255        \* bytes([size, code]) raises ValueError
    THEN [raised |-> "ValueError", frame |-> NoFrameSent]
    ELSE [raised |-> "none",
          frame |-> [header |-> MSP_V1_HEADER, code |-> code, len |-> n]]

\* send_msp_v2
send_msp_v2(code, n) ==
    IF n > 65535 THEN [raised |-> "MSPException", frame |-> NoFrameSent]
    ELSE IF code > 65535      \* struct.pack('<BHH', ...) raises struct.error
    THEN [raised |-> "struct.error", frame |-> NoFrameSent]
    ELSE [raised |-> "none",
          frame |-> [header |-> MSP_V2_HEADER, code |-> code, len |-> n]]

\* send_msp with the versions swapped
conn_send_msp_swapped(v2, code, n, force_v1) ==
    IF v2 /\ ~force_v1 /\ n <= 65535 THEN send_msp_v1(code, n)
    ELSE send_msp_v2(code, n)

\* send_msp, lines 122-125
conn_send_msp(v2, code, n, force_v1) ==
    IF v2 /\ ~force_v1 /\ n <= 65535 THEN send_msp_v2(code, n)
    ELSE send_msp_v1(code, n)

SendMsp(code, n, force_v1) ==
    /\ sess.state = "ready"
    /\ sess.sends < MaxSends
    /\ LET r == conn_send_msp(sess.v2, code, n, force_v1)
       IN  sess' = [sess EXCEPT
                      !.sends = @ + 1,
                      !.raised = r.raised,
                      !.tx = IF r.raised = "none" THEN Append(@, r.frame) ELSE @,
                      !.call = [code |-> code, len |-> n, force_v1 |-> force_v1]]
    /\ UNCHANGED args
    /\ UNCHANGED clientVars
    /\ UNCHANGED codecVars
    /\ UNCHANGED missionVars

\* a session that was opened, on V1 or on V2
SendInit ==
    /\ CodecAtRest
    /\ MissionAtRest
    /\ ClientAtRest
    /\ args = NoArgs
    /\ \E v \in BOOLEAN :
          sess = [state |-> "ready", v2 |-> v, open |-> TRUE, escaped |-> "none",
                  probe |-> "read", tx |-> <<>>, raised |-> "none", sends |-> 0,
                  call |-> [code |-> 0, len |-> 0, force_v1 |-> FALSE], method |-> "none"]

SendNext == \E c \in SendCodes, n \in SendLens, f \in BOOLEAN : SendMsp(c, n, f)

SendSpec == SendInit /\ [][SendNext]_vars

-----------------------------------------------------------------------------
(* A session in use: every public call of ConnectionManager after __init__   *)

\* the guard of lines 83-84, 101-102 and 129-130: self.ser is None
NotConnected == [raised |-> "MSPException", frame |-> NoFrameSent]

\* ser.write raises SerialException: lines 96-97 and 117-118 wrap it
WriteFails(r, e) ==
    IF r.raised = "none" /\ e # "none"
    THEN [raised |-> "MSPException", frame |-> NoFrameSent]
    ELSE r

\* the three ways to send, on a session that may have been closed
session_send(s, method, code, n, force_v1, e) ==
    IF ~s.open THEN NotConnected
    ELSE IF method = "send_msp_v1" THEN WriteFails(send_msp_v1(code, n), e)
    ELSE IF method = "send_msp_v2" THEN WriteFails(send_msp_v2(code, n), e)
    ELSE WriteFails(conn_send_msp(s.v2, code, n, force_v1), e)

\* read_response that keeps what it got as the probe does, lines 52-54
session_after_read_probing(s, got) ==
    [s EXCEPT !.sends = @ + 1,
              !.v2 = got = "frame",
              !.raised = IF ~s.open \/ got = "SerialException" THEN "MSPException"
                         ELSE "none"]

\* the session after read_response: a frame, (None, None), or MSPException
\* for a closed session or a failing read; lines 127-160 assign only
\* self.ser.timeout
session_after_read(s, got) ==
    [s EXCEPT !.sends = @ + 1,
              !.raised = IF ~s.open \/ got = "SerialException" THEN "MSPException"
                         ELSE "none"]

\* close, lines 207-212, and flush, lines 214-218
session_after_close(s) == [s EXCEPT !.sends = @ + 1, !.open = FALSE, !.raised = "none"]

session_after_flush(s) == [s EXCEPT !.sends = @ + 1, !.raised = "none"]

\* a call on the session: nothing but the session changes
UseCall ==
    /\ sess.state = "ready"
    /\ sess.sends < MaxSends
    /\ UNCHANGED args
    /\ UNCHANGED clientVars
    /\ UNCHANGED codecVars
    /\ UNCHANGED missionVars

UseSend(method, code, n, force_v1, e) ==
    /\ UseCall
    /\ LET r == session_send(sess, method, code, n, force_v1, e)
       IN  sess' = [sess EXCEPT
                      !.sends = @ + 1,
                      !.raised = r.raised,
                      !.tx = IF r.raised = "none" THEN Append(@, r.frame) ELSE @,
                      !.call = [code |-> code, len |-> n, force_v1 |-> force_v1],
                      !.method = method]

UseRead(got) ==
    /\ UseCall
    /\ sess' = [session_after_read(sess, got) EXCEPT !.method = "read_response"]

UseFlush ==
    /\ UseCall
    /\ sess' = [session_after_flush(sess) EXCEPT !.method = "flush"]

UseClose ==
    /\ UseCall
    /\ sess' = [session_after_close(sess) EXCEPT !.method = "close"]

UseInit == SendInit

\* a code and a payload length that fit V1, and ones that do not
UseCodes == {1, 256}
UseLens == {0, 256}

UseNext ==
    \/ \E m \in {"send_msp", "send_msp_v1", "send_msp_v2"}, c \in UseCodes,
          n \in UseLens, f \in BOOLEAN, e \in {"none", "SerialException"} :
          UseSend(m, c, n, f, e)
    \/ \E got \in {"frame", "none", "SerialException"} : UseRead(got)
    \/ UseFlush
    \/ UseClose

UseSpec == UseInit /\ [][UseNext]_vars

-----------------------------------------------------------------------------
(* Two threads on one ConnectionManager: send_msp, then read_response *)

MaxRounds == 1      \* most request/response rounds of one thread

\* the request each thread makes
ThreadCode(t) == IF t = 1 THEN 1 ELSE 255

Logged(t, ev) == Append(thr.log, [t |-> t, ev |-> ev])

\* thread t calls send_msp: nothing in ConnectionManager makes it wait for the
\* other thread (the class holds no lock); the session stands on V1
ThreadSend(t) ==
    /\ thr.pc[t] = "idle"
    /\ thr.rounds[t] < MaxRounds
    /\ written' = written \o PacketV1(ThreadCode(t), <<>>)
    /\ thr' = [thr EXCEPT !.pc[t] = "sent", !.log = Logged(t, "send")]
    /\ UNCHANGED <<port, ret, rdInput, rdIters, args, sess, ctl, fx, disk, cal>>
    /\ UNCHANGED missionVars

\* the device answers the oldest request it holds with a response of the same
\* code
DeviceAnswers ==
    /\ written # <<>>
    /\ LET n == 6 + written[4]
       IN  /\ port' = port \o <<36, 77, 62>> \o SubSeq(written, 4, n)
           /\ written' = SubSeq(written, n + 1, Len(written))
    /\ UNCHANGED <<ret, rdInput, rdIters>>
    /\ UNCHANGED missionVars
    /\ UNCHANGED sessVars

\* thread t calls read_response and takes what it returns
ThreadRead(t, iters) ==
    /\ thr.pc[t] = "sent"
    /\ LET r == read_response(port, iters)
       IN  /\ ret' = r.res
           /\ port' = r.rest
           /\ thr' = [thr EXCEPT !.pc[t] = "idle",
                                 !.rounds[t] = @ + 1,
                                 !.got[t] = r.res,
                                 !.log = Logged(t, "return")]
    /\ rdInput' = port
    /\ rdIters' = iters
    /\ UNCHANGED <<written, args, sess, ctl, fx, disk, cal>>
    /\ UNCHANGED missionVars

ThreadInit == CodecAtRest /\ MissionAtRest /\ SessAtRest

ThreadNext ==
    \/ \E t \in Threads : ThreadSend(t)
    \/ DeviceAnswers
    \/ \E t \in Threads, n \in 1..MaxIters : ThreadRead(t, n)

ThreadSpec == ThreadInit /\ [][ThreadNext]_vars

-----------------------------------------------------------------------------
(* Fixed point in floating point: int(alt * 100) and alt / 100.0              *)
(*                                                                           *)
(* A float is m / 2^s with m an integer of at most MantissaBits bits, and     *)
(* every operation rounds its exact result to the nearest such value, ties    *)
(* to even, as IEEE 754 does.  Python's floats carry 53 bits; MantissaBits    *)
(* is what 32-bit integers can compute exactly.  The rounding rules are the   *)
(* same, the inputs that meet a given rounding differ with the width.  The    *)
(* product of two floats needs twice the bits, hence the width chosen.        *)

MantissaBits == 14  \* bits of a float's significand
MaxCm == 500        \* altitudes of -MaxCm/100 .. MaxCm/100 metres

ALT_SCALE == 100    \* int(waypoint.alt * 100), alt / 100.0

Float(m, s) == [m |-> m, s |-> s]

Abs(n) == IF n < 0 THEN -n ELSE n

\* round-half-even of (q + r/d), 0 <= r < d
RoundHalfEven(q, r, d) ==
    IF 2 * r > d \/ (2 * r = d /\ q % 2 = 1) THEN q + 1 ELSE q

\* the binary exponent that brings a / den up to MantissaBits bits
RECURSIVE ShiftUp(_, _, _)
ShiftUp(a, den, s) ==
    IF a * (2 ^ s) >= (2 ^ (MantissaBits - 1)) * den THEN s ELSE ShiftUp(a, den, s + 1)

\* the float nearest to num / den (what the literal, or the division, gives)
FloatOfRatio(num, den) ==
    IF num = 0 THEN Float(0, 0)
    ELSE LET a == Abs(num)
             s == ShiftUp(a, den, 0)
             t == a * (2 ^ s)
             m == RoundHalfEven(t \div den, t % den, den)
         IN  Float(IF num < 0 THEN -m ELSE m, s)

\* the bits to drop so that n fits MantissaBits bits
RECURSIVE ShiftDown(_, _)
ShiftDown(n, d) == IF n < (2 ^ MantissaBits) * (2 ^ d) THEN d ELSE ShiftDown(n, d + 1)

\* the float x * k for an integer k: the exact product, rounded
FloatTimes(x, k) ==
    LET n == Abs(x.m) * k
        d == ShiftDown(n, 0)
        m == RoundHalfEven(n \div (2 ^ d), n % (2 ^ d), 2 ^ d)
    IN  Float(IF x.m < 0 THEN -m ELSE m, x.s - d)

\* int(x): toward zero
IntOfFloat(x) ==
    IF x.m < 0 THEN -(Abs(x.m) \div (2 ^ x.s)) ELSE x.m \div (2 ^ x.s)

\* abs(a - b) <= 1 / den, in exact arithmetic
WithinOneOver(a, b, den) ==
    LET s == IF a.s > b.s THEN a.s ELSE b.s
        d == Abs(a.m * (2 ^ (s - a.s)) - b.m * (2 ^ (s - b.s)))
    IN  den * d <= 2 ^ s

\* a waypoint is given the altitude cm / 100 metres
GiveAltitude(cm) ==
    /\ fx.stage = "none"
    /\ fx' = [fx EXCEPT !.stage = "given", !.cm = cm,
                        !.alt = FloatOfRatio(cm, ALT_SCALE)]
    /\ UNCHANGED <<args, sess, thr, ctl, disk, cal>>
    /\ UNCHANGED codecVars
    /\ UNCHANGED missionVars

\* set_waypoint, line 141: int(waypoint.alt * 100)
EncodeAltitude ==
    /\ fx.stage = "given"
    /\ fx' = [fx EXCEPT !.stage = "encoded",
                        !.wire = IntOfFloat(FloatTimes(fx.alt, ALT_SCALE))]
    /\ UNCHANGED <<args, sess, thr, ctl, disk, cal>>
    /\ UNCHANGED codecVars
    /\ UNCHANGED missionVars

\* get_waypoint, line 106: alt=alt / 100.0
DecodeAltitude ==
    /\ fx.stage = "encoded"
    /\ fx' = [fx EXCEPT !.stage = "decoded",
                        !.back = FloatOfRatio(fx.wire, ALT_SCALE)]
    /\ UNCHANGED <<args, sess, thr, ctl, disk, cal>>
    /\ UNCHANGED codecVars
    /\ UNCHANGED missionVars

FixedInit == CodecAtRest /\ MissionAtRest /\ SessAtRest

FixedNext ==
    \/ \E cm \in (-MaxCm)..MaxCm : GiveAltitude(cm)
    \/ EncodeAltitude
    \/ DecodeAltitude

FixedSpec == FixedInit /\ [][FixedNext]_vars

-----------------------------------------------------------------------------
(* A mission saved to a file and loaded back                                  *)
(*                                                                           *)
(* save_mission_to_file builds the whole record, get_mission_info included,   *)
(* before it opens the file.  get_mission_info sums _calculate_distance over  *)
(* consecutive waypoints, and _calculate_distance takes math.sqrt(1 - a) of   *)
(* the haversine term a, computed in floating point.  The missions modelled   *)
(* lie on two meridians half a turn apart, at a latitude either side of the   *)
(* equator: there every sine and cosine the formula takes is 0, 1, or the     *)
(* sine or cosine of that latitude.                                           *)

MaxFileWps == 2     \* waypoints in a mission that is saved

\* latitudes given by their sine p/h and cosine q/h, as <<p, q, h>>
Angles == {<<3, 4, 5>>, <<51, 140, 149>>, <<308, 435, 533>>}

\* the float x * y: the exact product, rounded
FloatMul(x, y) ==
    LET n == Abs(x.m) * Abs(y.m)
        d == ShiftDown(n, 0)
        m == RoundHalfEven(n \div (2 ^ d), n % (2 ^ d), 2 ^ d)
    IN  IF n = 0 THEN Float(0, 0)
        ELSE Float(IF (x.m < 0) # (y.m < 0) THEN -m ELSE m, x.s + y.s - d)

\* the float x + y: the exact sum, rounded
FloatAdd(x, y) ==
    LET s == IF x.s > y.s THEN x.s ELSE y.s
        n == x.m * (2 ^ (s - x.s)) + y.m * (2 ^ (s - y.s))
        d == ShiftDown(Abs(n), 0)
        m == RoundHalfEven(Abs(n) \div (2 ^ d), Abs(n) % (2 ^ d), 2 ^ d)
    IN  IF n = 0 THEN Float(0, 0)
        ELSE Float(IF n < 0 THEN -m ELSE m, s - d)

\* 1 - x < 0
OneMinusNegative(x) == x.m > 2 ^ x.s

\* a latitude: an angle of Angles, north (1) or south (-1) of the equator
Latitude(angle, side) == [angle |-> angle, side |-> side]

\* math.sin and math.cos of a latitude, correctly rounded
SinLat(lat) == FloatOfRatio(lat.side * lat.angle[1], lat.angle[3])
CosLat(lat) == FloatOfRatio(lat.angle[2], lat.angle[3])

\* math.sin(delta_lat / 2): the latitudes are equal or opposite, and halving
\* and negating a float are exact
SinHalfDeltaLat(lat1, lat2) ==
    IF lat1.side = lat2.side THEN Float(0, 0) ELSE SinLat(lat2)

\* math.sin(delta_lon / 2): the longitudes are 0 or 180, and the sine of the
\* float nearest pi/2 is 1.0
SinHalfDeltaLon(lon1, lon2) ==
    IF lon1 = lon2 THEN Float(0, 0)
    ELSE FloatOfRatio(IF lon2 > lon1 THEN 1 ELSE -1, 1)

\* the haversine term a of _calculate_distance, lines 327-329
HaversineA(w1, w2) ==
    LET sdlat == SinHalfDeltaLat(w1.lat, w2.lat)
        sdlon == SinHalfDeltaLon(w1.lon, w2.lon)
    IN  FloatAdd(FloatMul(sdlat, sdlat),
                 FloatMul(FloatMul(FloatMul(CosLat(w1.lat), CosLat(w2.lat)),
                                   sdlon), sdlon))

\* _calculate_distance raises ValueError: math.sqrt of a negative number
calculate_distance_raises(w1, w2) == OneMinusNegative(HaversineA(w1, w2))

\* get_mission_info raises: some consecutive pair does
get_mission_info_raises(wps) ==
    \E i \in 2..Len(wps) : calculate_distance_raises(wps[i - 1], wps[i])

\* dict.get(key, default)
Get(data, key, default) == IF key \in DOMAIN data THEN data[key] ELSE default

\* Waypoint.to_dict
to_dict(wp) ==
    [lat |-> wp.lat, lon |-> wp.lon, alt |-> wp.alt, action |-> wp.action,
     param1 |-> wp.param1, param2 |-> wp.param2, param3 |-> wp.param3,
     flag |-> wp.flag]

\* Waypoint.from_dict
from_dict(data) ==
    Waypoint(data["lat"], data["lon"], data["alt"], Get(data, "action", 1),
             Get(data, "param1", 0), Get(data, "param2", 0),
             Get(data, "param3", 0), Get(data, "flag", 0))

\* the waypoints a caller adds: both sides of the equator, both meridians,
\* altitudes in metres within validate_coordinates' limits
FileWps(angle) ==
    {Waypoint(Latitude(angle, 1), 0, 10, 1, 500, 0, 0, 0),
     Waypoint(Latitude(angle, -1), 180, 10, 1, 0, 0, 0, 0),
     Waypoint(Latitude(angle, 1), 180, 50, 8, 0, 7, 0, 72),
     Waypoint(Latitude(angle, -1), 0, -5, 1, 0, 0, 3, 0)}

\* add_waypoint on a mission below capacity, with valid coordinates
FileAddWaypoint(wp) ==
    /\ disk.stage = "editing"
    /\ Len(disk.waypoints) < MaxFileWps
    /\ \A i \in 1..Len(disk.waypoints) : disk.waypoints[i].lat.angle = wp.lat.angle
    /\ disk' = [disk EXCEPT !.waypoints = Append(@, wp)]
    /\ UNCHANGED <<args, sess, thr, ctl, fx, cal>>
    /\ UNCHANGED codecVars
    /\ UNCHANGED missionVars

\* save_mission_to_file, lines 397-418: the file is written only when the
\* whole record could be built
SaveMissionToFile ==
    /\ disk.stage = "editing"
    /\ IF get_mission_info_raises(disk.waypoints)
       THEN disk' = [disk EXCEPT !.stage = "saved", !.saved = FALSE]
       ELSE disk' = [disk EXCEPT !.stage = "saved", !.saved = TRUE,
                                 !.file = [exists |-> TRUE,
                                           waypoints |-> [i \in 1..Len(disk.waypoints) |->
                                                          to_dict(disk.waypoints[i])]]]
    /\ UNCHANGED <<args, sess, thr, ctl, fx, cal>>
    /\ UNCHANGED codecVars
    /\ UNCHANGED missionVars

\* load_mission_from_file of the same file, lines 420-439, by the Mission that
\* saved it or by a new one: open() fails before clear_mission is reached
LoadSavedMission(fresh) ==
    /\ disk.stage = "saved"
    /\ IF ~disk.file.exists
       THEN disk' = [disk EXCEPT !.stage = "loaded", !.loaded = FALSE,
                                 !.back = IF fresh THEN <<>> ELSE disk.waypoints]
       ELSE disk' = [disk EXCEPT !.stage = "loaded", !.loaded = TRUE,
                                 !.back = [i \in 1..Len(disk.file.waypoints) |->
                                           from_dict(disk.file.waypoints[i])]]
    /\ UNCHANGED <<args, sess, thr, ctl, fx, cal>>
    /\ UNCHANGED codecVars
    /\ UNCHANGED missionVars

FileInit == CodecAtRest /\ MissionAtRest /\ SessAtRest

FileNext ==
    \/ \E angle \in Angles : \E wp \in FileWps(angle) : FileAddWaypoint(wp)
    \/ SaveMissionToFile
    \/ \E fresh \in BOOLEAN : LoadSavedMission(fresh)

FileSpec == FileInit /\ [][FileNext]_vars

-----------------------------------------------------------------------------
(* Control: RC frames behind the safety checks                                *)
(*                                                                           *)
(* Every call is one step.  What the flight controller answers to a status    *)
(* query made during the call, and whether a send raises, are the call's      *)
(* environment.  Of the sixteen channels only throttle and yaw leave neutral. *)

MaxCtlCalls == 2    \* calls made on one Control

\* a request written to the session
StatusFrame == [code |-> MSP_STATUS, throttle |-> 0, yaw |-> 0]
RcFrame(throttle, yaw) == [code |-> MSP_SET_RAW_RC, throttle |-> throttle, yaw |-> yaw]

\* status: the reply to MSP_STATUS ("none": no usable reply before the
\* timeout); fails: the send that raises, if any
Envs == [status : {"none", "armed", "disarmed"}, fails : {"never", "status", "rc"}]

\* _check_armed_state, lines 39-48: get_status sends MSP_STATUS and waits for
\* the reply; nothing here catches what the send raises
check_armed_state(c, e) ==
    IF e.fails = "status" THEN [c EXCEPT !.raised = TRUE]
    ELSE [c EXCEPT !.tx = Append(@, StatusFrame),
                   !.is_armed = IF e.status = "none" THEN @ ELSE e.status = "armed"]

\* a safety check that lets every operation through
safety_check_permissive(c, operation, e) ==
    IF ~c.safety_enabled THEN [c |-> c, ok |-> TRUE]
    ELSE IF operation \in {"send_rc", "set_throttle"}
    THEN [c |-> check_armed_state(c, e), ok |-> TRUE]
    ELSE [c |-> c, ok |-> TRUE]

\* _safety_check, lines 50-68: the Control afterwards and the value returned
safety_check(c, operation, e) ==
    IF ~c.safety_enabled THEN [c |-> c, ok |-> TRUE]
    ELSE IF operation \in {"arm", "disarm"} THEN [c |-> c, ok |-> TRUE]
    ELSE IF operation \in {"emergency_stop", "failsafe"} THEN [c |-> c, ok |-> TRUE]
    ELSE IF operation \in {"send_rc", "set_throttle"}
    THEN LET c1 == check_armed_state(c, e)
             armed == e.status = "armed"
         IN  [c |-> c1, ok |-> ~(~armed /\ operation = "set_throttle")]
    ELSE [c |-> c, ok |-> TRUE]

\* send_rc, lines 70-94: the safety check stands outside the try
send_rc(c, throttle, yaw, e) ==
    LET s == safety_check(c, "send_rc", e)
    IN  IF s.c.raised THEN s.c
        ELSE IF ~s.ok THEN [s.c EXCEPT !.result = FALSE]
        ELSE IF e.fails = "rc" THEN [s.c EXCEPT !.result = FALSE]
        ELSE [s.c EXCEPT !.tx = Append(@, RcFrame(throttle, yaw)),
                         !.last_throttle = throttle, !.last_yaw = yaw,
                         !.result = TRUE]

\* the stick sequence of arm and disarm: hold yaw, then back to neutral; the
\* value of the second send_rc is not looked at
stick_sequence(c, yaw, e) ==
    LET c1 == send_rc(c, PWM_MIN, yaw, e)
    IN  IF c1.raised \/ ~c1.result THEN c1
        ELSE LET c2 == send_rc(c1, PWM_MIN, PWM_NEUTRAL, e)
             IN  IF c2.raised THEN c2 ELSE [c2 EXCEPT !.result = TRUE]

\* arm, lines 96-119
arm(c, throttle_check, e) ==
    IF throttle_check /\ c.safety_enabled /\ c.last_throttle > ARM_THRESHOLD
    THEN [c EXCEPT !.result = FALSE]
    ELSE stick_sequence(c, PWM_MAX, e)

\* disarm, lines 121-142: force only silences a warning
disarm(c, force, e) == stick_sequence(c, PWM_MIN, e)

\* emergency_stop, lines 144-157
emergency_stop(c, e) ==
    LET c1 == send_rc(c, PWM_MIN, PWM_NEUTRAL, e)
    IN  IF c1.raised \/ ~c1.result THEN c1
        ELSE LET c2 == disarm(c1, TRUE, e)
             IN  IF c2.raised THEN c2 ELSE [c2 EXCEPT !.result = TRUE]

\* set_throttle, lines 158-171, for a percentage of 0 .. 100 that is a
\* multiple of ten
set_throttle(c, throttle_percent, e) ==
    LET s == safety_check(c, "set_throttle", e)
    IN  IF s.c.raised THEN s.c
        ELSE IF ~s.ok THEN [s.c EXCEPT !.result = FALSE]
        ELSE send_rc(s.c, PWM_MIN + (throttle_percent \div 10) * ((PWM_MAX - PWM_MIN) \div 10),
                     s.c.last_yaw, e)

\* a method of Control is called: nothing but the Control changes
ControlCall ==
    /\ ctl.n < MaxCtlCalls
    /\ UNCHANGED <<args, sess, thr, fx, disk, cal>>
    /\ UNCHANGED codecVars
    /\ UNCHANGED missionVars

\* the Control as a call finds it
Calling == [ctl EXCEPT !.raised = FALSE, !.result = FALSE]

\* the Control as the call leaves it, with the call's name, its boolean
\* argument or its percentage, and its environment
Called(name, flag, percent, e, after) ==
    [after EXCEPT !.op = name, !.flag = flag, !.percent = percent, !.env = e,
                  !.n = ctl.n + 1, !.txAtCall = Len(ctl.tx),
                  !.safetyAtCall = ctl.safety_enabled]

NoEnv == [status |-> "none", fails |-> "never"]

\* enable_safety, lines 19-22
EnableSafety(enabled) ==
    /\ ControlCall
    /\ ctl' = Called("enable_safety", enabled, 0, NoEnv,
                     [Calling EXCEPT !.safety_enabled = enabled])

Arm(throttle_check, e) ==
    /\ ControlCall
    /\ ctl' = Called("arm", throttle_check, 0, e, arm(Calling, throttle_check, e))

Disarm(force, e) ==
    /\ ControlCall
    /\ ctl' = Called("disarm", force, 0, e, disarm(Calling, force, e))

EmergencyStop(e) ==
    /\ ControlCall
    /\ ctl' = Called("emergency_stop", FALSE, 0, e, emergency_stop(Calling, e))

SetThrottle(throttle_percent, e) ==
    /\ ControlCall
    /\ ctl' = Called("set_throttle", FALSE, throttle_percent, e,
                     set_throttle(Calling, throttle_percent, e))

ControlInit == CodecAtRest /\ MissionAtRest /\ SessAtRest

ControlNext ==
    \/ \E enabled \in BOOLEAN : EnableSafety(enabled)
    \/ \E throttle_check \in BOOLEAN, e \in Envs : Arm(throttle_check, e)
    \/ \E force \in BOOLEAN, e \in Envs : Disarm(force, e)
    \/ \E e \in Envs : EmergencyStop(e)
    \/ \E p \in {20, 100}, e \in Envs : SetThrottle(p, e)

ControlSpec == ControlInit /\ [][ControlNext]_vars

-----------------------------------------------------------------------------
(* Control with all sixteen channels: what the RC frames carry                *)
(*                                                                           *)
(* The Control record holds _last_rc_values whole and an RC frame holds its   *)
(* channel list.  Percentages are multiples of ten.                           *)

ROLL == 0
PITCH == 1
YAW == 2
THROTTLE == 3
AUX1 == 4

FcTypes == {"INAV", "BETAFLIGHT"}

\* a channel value that is neither an int nor a float
NonNumeric == -1

Neutral16 == [i \in 1..16 |-> PWM_NEUTRAL]

\* channels[index] = value
SetChannel(channels, index, value) == [channels EXCEPT ![index + 1] = value]

\* Control.__init__, lines 12-17
NewChannelControl(fc_type) ==
    [last_rc_values |-> Neutral16, fc_type |-> fc_type, safety_enabled |-> TRUE,
     is_armed |-> FALSE, tx |-> <<>>, op |-> "new", flag |-> FALSE, percent |-> 0,
     env |-> [status |-> "none", fails |-> "never"], result |-> FALSE,
     raised |-> FALSE, n |-> 0, txAtCall |-> 0, safetyAtCall |-> TRUE]

ChannelsFrame(channels) == [code |-> MSP_SET_RAW_RC, channels |-> channels]

Max(a, b) == IF a >= b THEN a ELSE b

\* the value as it is, not clamped
validate_channel_value_unclamped(value) == value

\* _validate_channel_value, lines 24-26
validate_channel_value(value) == Max(PWM_MIN, Min(PWM_MAX, value))

\* _validate_channels, lines 28-37
validate_channels(channels) ==
    [i \in 1..Len(channels) |->
        IF channels[i] = NonNumeric THEN PWM_NEUTRAL
        ELSE validate_channel_value(channels[i])]

\* lines 79-83: at least 8 channels, at most 16
AtLeast8(channels) ==
    channels \o [i \in 1..(8 - Len(channels)) |-> PWM_NEUTRAL]

AtMost16(channels) == SubSeq(channels, 1, Min(16, Len(channels)))

\* struct.pack('<nH', ...) raises struct.error on a value outside 0..65535
PackChannelsFails(channels) ==
    \E i \in 1..Len(channels) : channels[i] < 0 \/ channels[i] > 65535

\* send_rc(channels, validate), lines 70-94
send_rc_channels(c, channels, v, e) ==
    LET s == safety_check(c, "send_rc", e)
    IN  IF s.c.raised THEN s.c
        ELSE IF ~s.ok THEN [s.c EXCEPT !.result = FALSE]
        ELSE
        LET sent == AtMost16(AtLeast8(IF v THEN validate_channels(channels)
                                      ELSE channels))
        IN  IF PackChannelsFails(sent) \/ e.fails = "rc"
            THEN [s.c EXCEPT !.result = FALSE]
            ELSE [s.c EXCEPT !.tx = Append(@, ChannelsFrame(sent)),
                             !.last_rc_values = sent,
                             !.result = TRUE]

\* lines 106-116 and 130-139: throttle low and yaw held, then yaw back to
\* neutral; the value of the second send_rc is not looked at
stick_sequence_channels(c, yaw, e) ==
    LET channels == SetChannel(SetChannel(Neutral16, THROTTLE, PWM_MIN), YAW, yaw)
        c1 == send_rc_channels(c, channels, FALSE, e)
    IN  IF c1.raised \/ ~c1.result THEN c1
        ELSE LET c2 == send_rc_channels(c1, SetChannel(channels, YAW, PWM_NEUTRAL),
                                        FALSE, e)
             IN  IF c2.raised THEN c2 ELSE [c2 EXCEPT !.result = TRUE]

\* arm, lines 96-119
arm_channels(c, throttle_check, e) ==
    IF /\ throttle_check /\ c.safety_enabled
       /\ Len(c.last_rc_values) > THROTTLE
       /\ c.last_rc_values[THROTTLE + 1] > ARM_THRESHOLD
    THEN [c EXCEPT !.result = FALSE]
    ELSE stick_sequence_channels(c, PWM_MAX, e)

\* disarm, lines 121-142
disarm_channels(c, force, e) == stick_sequence_channels(c, PWM_MIN, e)

\* emergency_stop, lines 144-157
emergency_stop_channels(c, e) ==
    LET c1 == send_rc_channels(c, SetChannel(Neutral16, THROTTLE, PWM_MIN), FALSE, e)
    IN  IF c1.raised \/ ~c1.result THEN c1
        ELSE LET c2 == disarm_channels(c1, TRUE, e)
             IN  IF c2.raised THEN c2 ELSE [c2 EXCEPT !.result = TRUE]

\* lines 164-167 and 196-199: int(MIN + (percent / 100.0) * (MAX - MIN))
ThrottlePwm(percent) ==
    PWM_MIN + (Max(0, Min(100, percent)) \div 10) * ((PWM_MAX - PWM_MIN) \div 10)

\* lines 181-188: int(NEUTRAL + (percent / 100.0) * 500)
AttitudePwm(percent) == PWM_NEUTRAL + Max(-100, Min(100, percent)) * 5

\* set_throttle, lines 159-172
set_throttle_channels(c, throttle_percent, e) ==
    LET s == safety_check(c, "set_throttle", e)
    IN  IF s.c.raised THEN s.c
        ELSE IF ~s.ok THEN [s.c EXCEPT !.result = FALSE]
        ELSE send_rc_channels(s.c, SetChannel(s.c.last_rc_values, THROTTLE,
                                              ThrottlePwm(throttle_percent)),
                              TRUE, e)

\* set_attitude, lines 174-202; with_throttle: throttle_percent is not None
set_attitude(c, roll_percent, pitch_percent, yaw_percent, with_throttle, throttle_percent, e) ==
    LET s == safety_check(c, "send_rc", e)
    IN  IF s.c.raised THEN s.c
        ELSE IF ~s.ok THEN [s.c EXCEPT !.result = FALSE]
        ELSE
        LET attitude ==
                SetChannel(SetChannel(SetChannel(s.c.last_rc_values,
                                                 ROLL, AttitudePwm(roll_percent)),
                                      PITCH, AttitudePwm(pitch_percent)),
                           YAW, AttitudePwm(yaw_percent))
            channels == IF with_throttle
                        THEN SetChannel(attitude, THROTTLE, ThrottlePwm(throttle_percent))
                        ELSE attitude
        IN  send_rc_channels(s.c, channels, TRUE, e)

\* set_aux_channel, lines 204-218
set_aux_channel(c, aux_number, value, e) ==
    IF aux_number < 1 \/ aux_number > 8 THEN [c EXCEPT !.result = FALSE]
    ELSE IF AUX1 + (aux_number - 1) >= Len(c.last_rc_values)
    THEN [c EXCEPT !.result = FALSE]
    ELSE send_rc_channels(c, SetChannel(c.last_rc_values, AUX1 + (aux_number - 1),
                                        validate_channel_value(value)),
                          TRUE, e)

\* lines 225-247: the AUX number of a mode, 0 for a mode the table lacks
ModeAux(fc_type, mode) ==
    IF mode = "ANGLE" \/ mode = "HORIZON" THEN 1
    ELSE IF mode = "MAG" THEN 2
    ELSE IF mode = "BARO" THEN 3
    ELSE IF mode = "HEADFREE" THEN 4
    ELSE IF fc_type = "INAV" /\ mode = "NAV_ALTHOLD" THEN 5
    ELSE IF fc_type = "INAV" /\ mode = "NAV_POSHOLD" THEN 6
    ELSE IF fc_type = "INAV" /\ mode = "NAV_RTH" THEN 7
    ELSE IF fc_type = "INAV" /\ mode = "NAV_WP" THEN 8
    ELSE IF fc_type = "INAV" /\ mode = "MANUAL" THEN 2
    ELSE IF fc_type = "BETAFLIGHT" /\ mode = "ACRO_TRAINER" THEN 5
    ELSE IF fc_type = "BETAFLIGHT" /\ mode = "OSD_SW" THEN 6
    ELSE IF fc_type = "BETAFLIGHT" /\ mode = "TURTLE" THEN 7
    ELSE IF fc_type = "BETAFLIGHT" /\ mode = "VTX_PIT" THEN 8
    ELSE 0

\* set_flight_mode, lines 220-257
set_flight_mode(c, mode, enable, e) ==
    IF ModeAux(c.fc_type, mode) = 0 THEN [c EXCEPT !.result = FALSE]
    ELSE set_aux_channel(c, ModeAux(c.fc_type, mode),
                         IF enable THEN PWM_MAX ELSE PWM_MIN, e)

\* reset_rc_channels, lines 311-315
reset_rc_channels(c, e) ==
    send_rc_channels(c, SetChannel(Neutral16, THROTTLE, PWM_MIN), TRUE, e)

\* what the flight controller and the port do during one call
ChannelEnvs ==
    {[status |-> "armed", fails |-> "never"],
     [status |-> "disarmed", fails |-> "never"],
     [status |-> "none", fails |-> "rc"],
     [status |-> "armed", fails |-> "status"]}

\* lists a caller passes to send_rc: short with values off both limits, long
\* with a value that is no number, in range with a value 'H' cannot hold
ChannelLists ==
    {<<900, 2100, 1500>>,
     [i \in 1..17 |-> IF i = 2 THEN NonNumeric ELSE 1400 + i],
     [i \in 1..8 |-> IF i = 5 THEN 70000 ELSE 1600]}

Percents == {-150, 50}

AuxNumbers == {0, 1, 5, 9}

AuxValues == {900, 1700}

Modes == {"ANGLE", "NAV_WP", "TURTLE", "LEVEL"}

ChannelsEnableSafety(enabled) ==
    /\ ControlCall
    /\ ctl' = Called("enable_safety", enabled, 0, NoEnv,
                     [Calling EXCEPT !.safety_enabled = enabled])

ChannelsSendRc(channels, v, e) ==
    /\ ControlCall
    /\ ctl' = Called("send_rc", v, 0, e, send_rc_channels(Calling, channels, v, e))

ChannelsArm(throttle_check, e) ==
    /\ ControlCall
    /\ ctl' = Called("arm", throttle_check, 0, e, arm_channels(Calling, throttle_check, e))

ChannelsDisarm(force, e) ==
    /\ ControlCall
    /\ ctl' = Called("disarm", force, 0, e, disarm_channels(Calling, force, e))

ChannelsEmergencyStop(e) ==
    /\ ControlCall
    /\ ctl' = Called("emergency_stop", FALSE, 0, e, emergency_stop_channels(Calling, e))

ChannelsSetThrottle(throttle_percent, e) ==
    /\ ControlCall
    /\ ctl' = Called("set_throttle", FALSE, throttle_percent, e,
                     set_throttle_channels(Calling, throttle_percent, e))

SetAttitude(percent, with_throttle, e) ==
    /\ ControlCall
    /\ ctl' = Called("set_attitude", with_throttle, percent, e,
                     set_attitude(Calling, percent, 0 - percent, percent,
                                  with_throttle, percent, e))

SetAuxChannel(aux_number, value, e) ==
    /\ ControlCall
    /\ ctl' = Called("set_aux_channel", FALSE, value, e,
                     set_aux_channel(Calling, aux_number, value, e))

SetFlightMode(mode, enable, e) ==
    /\ ControlCall
    /\ ctl' = Called("set_flight_mode", enable, 0, e,
                     set_flight_mode(Calling, mode, enable, e))

ResetRcChannels(e) ==
    /\ ControlCall
    /\ ctl' = Called("reset_rc_channels", FALSE, 0, e, reset_rc_channels(Calling, e))

ChannelsInit ==
    /\ CodecAtRest /\ MissionAtRest /\ ThreadsAtRest
    /\ fx = NoAltitude /\ disk = NoFile /\ args = NoArgs /\ cal = NewSensors
    /\ sess = [state |-> "ready", v2 |-> FALSE, open |-> TRUE, escaped |-> "none",
               probe |-> "none", tx |-> <<>>, raised |-> "none", sends |-> 0,
               call |-> [code |-> 0, len |-> 0, force_v1 |-> FALSE], method |-> "none"]
    /\ \E fc_type \in FcTypes : ctl = NewChannelControl(fc_type)

ChannelsNext ==
    \/ \E enabled \in BOOLEAN : ChannelsEnableSafety(enabled)
    \/ \E channels \in ChannelLists, v \in BOOLEAN, e \in ChannelEnvs :
          ChannelsSendRc(channels, v, e)
    \/ \E throttle_check \in BOOLEAN, e \in ChannelEnvs : ChannelsArm(throttle_check, e)
    \/ \E e \in ChannelEnvs : ChannelsDisarm(FALSE, e)
    \/ \E e \in ChannelEnvs : ChannelsEmergencyStop(e)
    \/ \E p \in {20}, e \in ChannelEnvs : ChannelsSetThrottle(p, e)
    \/ \E p \in Percents, t \in BOOLEAN, e \in ChannelEnvs : SetAttitude(p, t, e)
    \/ \E a \in AuxNumbers, value \in AuxValues, e \in ChannelEnvs :
          SetAuxChannel(a, value, e)
    \/ \E mode \in Modes, enable \in BOOLEAN, e \in ChannelEnvs :
          SetFlightMode(mode, enable, e)
    \/ \E e \in ChannelEnvs : ResetRcChannels(e)

ChannelsSpec == ChannelsInit /\ [][ChannelsNext]_vars

-----------------------------------------------------------------------------
(* Sensors: the calibration sequence                                          *)
(*                                                                           *)
(* Every call is one step.  Whether the send of a calibration command raises  *)
(* is the call's environment.                                                 *)

MaxCalibrations == 2    \* calls made on one Sensors

MSP_ACC_CALIBRATION == 205
MSP_MAG_CALIBRATION == 206
MSP_CALIBRATE_GYRO == 61

\* what calibrate_accelerometer, calibrate_magnetometer and
\* calibrate_gyroscope share: refuse while a calibration is in progress, send
\* the command, wait, and return True; whatever the send raises is caught and
\* gives False
Calibration(s, name, code, raises) ==
    IF s.calibration_in_progress
    THEN [s EXCEPT !.steps = Append(@, [name |-> name, ok |-> FALSE])]
    ELSE IF raises
    THEN [s EXCEPT !.steps = Append(@, [name |-> name, ok |-> FALSE]),
                   !.calibration_in_progress = FALSE]
    ELSE [s EXCEPT !.tx = Append(@, code),
                   !.steps = Append(@, [name |-> name, ok |-> TRUE]),
                   !.calibration_in_progress = FALSE]

\* the value the last calibration returned
Succeeded(s) == s.steps[Len(s.steps)].ok

\* lines 17-38
calibrate_accelerometer(s, raises) ==
    Calibration(s, "accelerometer", MSP_ACC_CALIBRATION, raises)

\* lines 40-62
calibrate_magnetometer(s, raises) ==
    Calibration(s, "magnetometer", MSP_MAG_CALIBRATION, raises)

\* lines 64-85
calibrate_gyroscope(s, raises) ==
    Calibration(s, "gyroscope", MSP_CALIBRATE_GYRO, raises)

\* lines 310-311: the steps that have to succeed
total_steps(include_mag) == IF include_mag THEN 3 ELSE 2

\* calibrate_all_sensors(include_mag), lines 273-315; e says for each of the
\* three commands whether its send raises
calibrate_all_sensors(s, include_mag, e) ==
    LET s1 == calibrate_gyroscope(s, e.gyro)
        count1 == IF Succeeded(s1) THEN 1 ELSE 0
        s2 == calibrate_accelerometer(s1, e.acc)
        count2 == IF Succeeded(s2) THEN count1 + 1 ELSE count1
        s3 == IF include_mag THEN calibrate_magnetometer(s2, e.mag) ELSE s2
        count3 == IF include_mag
                  THEN IF Succeeded(s3) THEN count2 + 1 ELSE count2
                  ELSE count2 + 1
    IN  [s3 EXCEPT !.result = (count3 = total_steps(include_mag))]

SendRaises == [gyro : BOOLEAN, acc : BOOLEAN, mag : BOOLEAN]

\* a method of Sensors is called: nothing but the Sensors changes
SensorsCall ==
    /\ cal.n < MaxCalibrations
    /\ UNCHANGED <<args, sess, thr, ctl, fx, disk>>
    /\ UNCHANGED codecVars
    /\ UNCHANGED missionVars

\* the Sensors as a call finds it: the steps recorded are those of one call
SensorsCalling == [cal EXCEPT !.steps = <<>>, !.result = FALSE]

SensorsCalled(name, include_mag, after) ==
    [after EXCEPT !.op = name, !.include_mag = include_mag, !.n = cal.n + 1]

CalibrateGyroscope(raises) ==
    /\ SensorsCall
    /\ LET s == calibrate_gyroscope(SensorsCalling, raises)
       IN  cal' = SensorsCalled("calibrate_gyroscope", FALSE,
                                [s EXCEPT !.result = Succeeded(s)])

CalibrateAccelerometer(raises) ==
    /\ SensorsCall
    /\ LET s == calibrate_accelerometer(SensorsCalling, raises)
       IN  cal' = SensorsCalled("calibrate_accelerometer", FALSE,
                                [s EXCEPT !.result = Succeeded(s)])

CalibrateMagnetometer(raises) ==
    /\ SensorsCall
    /\ LET s == calibrate_magnetometer(SensorsCalling, raises)
       IN  cal' = SensorsCalled("calibrate_magnetometer", FALSE,
                                [s EXCEPT !.result = Succeeded(s)])

CalibrateAllSensors(include_mag, e) ==
    /\ SensorsCall
    /\ cal' = SensorsCalled("calibrate_all_sensors", include_mag,
                            calibrate_all_sensors(SensorsCalling, include_mag, e))

SensorsInit == CodecAtRest /\ MissionAtRest /\ SessAtRest

SensorsNext ==
    \/ \E raises \in BOOLEAN : CalibrateGyroscope(raises)
    \/ \E raises \in BOOLEAN : CalibrateAccelerometer(raises)
    \/ \E raises \in BOOLEAN : CalibrateMagnetometer(raises)
    \/ \E include_mag \in BOOLEAN, e \in SendRaises : CalibrateAllSensors(include_mag, e)

SensorsSpec == SensorsInit /\ [][SensorsNext]_vars

-----------------------------------------------------------------------------
(* Properties of the byte level, under CodecSpec *)

\* the bytes the last read_response took off the line
Consumed == SubSeq(rdInput, 1, Len(rdInput) - Len(port))

AllBytes(f) == \A i \in 1..Len(f) : f[i] # GAP

\* f is one whole $M> frame whose checksum byte matches its size, code and payload
WholeV1(f) ==
    /\ Len(f) >= 6
    /\ AllBytes(f)
    /\ SubSeq(f, 1, 3) = <<36, 77, 62>>
    /\ Len(f) = 6 + f[4]
    /\ f[Len(f)] = XorFold(0, SubSeq(f, 4, Len(f) - 1), Len(f) - 4)

\* f is one whole $X> frame whose CRC byte matches flag, code, size and payload
WholeV2(f) ==
    /\ Len(f) >= 9
    /\ AllBytes(f)
    /\ SubSeq(f, 1, 3) = <<36, 88, 62>>
    /\ Len(f) = 9 + f[7] + 256 * f[8]
    /\ f[Len(f)] = CrcFold(SubSeq(f, 4, Len(f) - 1), Len(f) - 4)

\* C1: read_response never surfaces an invalid frame: when it returns a code
\* and a payload, the bytes it consumed end with one whole frame ($M> or $X>)
\* whose integrity byte matches the received fields, and the code and payload
\* returned are that frame's; a mismatching or truncated frame gives
\* (None, None) and no part of its payload.
C1_NoInvalidFrame ==
    (rdIters > 0 /\ ret.ok) =>
        \E i \in 1..Len(Consumed) :
            LET f == SubSeq(Consumed, i, Len(Consumed)) IN
            \/ /\ WholeV1(f)
               /\ ret.code = f[5]
               /\ ret.data = SubSeq(f, 6, Len(f) - 1)
            \/ /\ WholeV2(f)
               /\ ret.code = f[5] + 256 * f[6]
               /\ ret.data = SubSeq(f, 9, Len(f) - 1)

\* C2: codec round trip: the body the V1 encoder (the V2 encoder) produces for
\* a code and a payload, put on the line behind the matching response header,
\* is decoded by read_response to that code and that payload.
C2_RoundTrip ==
    (rdIters > 0 /\ Len(rdInput) >= 6 /\ AllBytes(rdInput) /\ rdInput[3] = 62) =>
        /\ \A c \in CodesV1, d \in Payloads :
              (/\ Len(rdInput) = 6 + Len(d)
               /\ rdInput = <<36, 77, 62>> \o SubSeq(PacketV1(c, d), 4, Len(PacketV1(c, d))))
                  => (ret.ok /\ ret.code = c /\ ret.data = d /\ port = <<>>)
        /\ \A c \in CodesV2, d \in Payloads :
              (/\ Len(rdInput) = 9 + Len(d)
               /\ rdInput = <<36, 88, 62>> \o SubSeq(PacketV2(c, d), 4, Len(PacketV2(c, d))))
                  => (ret.ok /\ ret.code = c /\ ret.data = d /\ port = <<>>)

\* a V2 frame with a two-byte code and a payload came back through the loop
C2_Witness ==
    /\ rdIters > 0
    /\ ret.ok
    /\ ret.code = 4660
    /\ Len(ret.data) = 2
    /\ rdInput = <<36, 88, 62>> \o SubSeq(PacketV2(4660, ret.data), 4,
                                           Len(PacketV2(4660, ret.data)))

-----------------------------------------------------------------------------
(* Properties of the frame level, under Spec and FullSpec *)

Returned(name) == op = name /\ pc = "idle"

SetWpFrames == SelectSeq(chan.txlog, LAMBDA f : f.code = MSP_SET_WP)

\* C3: every send is paired with one receive: no request frame is written
\* while the request before it has had no read_response, and against a device
\* that answers every request with one frame each read_response gets the
\* answer to the request sent just before it.
C3_SendPairedWithReceive == ~chan.unpaired /\ ~chan.crossed

\* C4: upload never commits silently: when upload_mission(validate=True)
\* returns success, the verification read of every index returned a waypoint
\* within 1e-6 degrees and 0.1 m of the one meant; a verification read with
\* no data makes the upload fail.
C4_SuccessMeansVerified ==
    (Returned("upload") /\ validate /\ result) => allVerified

\* C5: upload abort-on-mismatch: when the verification read of waypoint k is
\* out of tolerance, upload_mission(validate=True) returns failure, no
\* write-waypoint frame for an index above k is sent, and the call does not
\* mark the mission loaded.
C5_AbortOnMismatch ==
    (op = "upload" /\ validate /\ mismatchAt >= 0) =>
        /\ pc = "idle"
        /\ ~result
        /\ \A j \in 1..Len(SetWpFrames) : SetWpFrames[j].data.wp_no <= mismatchAt
        /\ mission_loaded = loadedAtCall

\* the last but one waypoint of a full mission was read back out of tolerance
C5_Witness ==
    /\ Returned("upload")
    /\ Len(waypoints) = 60
    /\ mismatchAt = 58
    /\ Len(SetWpFrames) = 59

\* C6: download is all-or-nothing under transport failure: when a read of
\* download_mission fails for a transport reason (timeout, integrity
\* mismatch, exception on the channel), download_mission reports failure and
\* the mission holds none of the waypoints read before.
C6_DownloadAllOrNothing ==
    (Returned("download") /\ \E i \in 1..Len(dlReads) : dlReads[i].kind \in TransportFailures)
        => (~result /\ waypoints = <<>>)

AllWritten ==
    /\ Len(SetWpFrames) >= Len(waypoints)
    /\ \A i \in 1..Len(waypoints) : SetWpFrames[i].data.wp_no = i - 1

AllAnswered == \A i \in 1..Len(dlReads) : dlReads[i].kind = "frame"

\* C7: the loaded bit is set only by a successful round trip: it goes from
\* false to true only at the return of an upload_mission call whose N writes
\* all succeeded, or of a download_mission call whose every read up to the
\* sentinel was answered by the device; it is false on a new mission and
\* after clear_mission.
C7_LoadedOnlyByRoundTrip ==
    [][/\ (~mission_loaded /\ mission_loaded') =>
             \/ op' = "upload" /\ pc' = "idle" /\ result' /\ AllWritten'
             \/ op' = "download" /\ pc' = "idle" /\ result' /\ AllAnswered'
       /\ (op' \in {"new", "clear"} /\ pc' = "idle") => ~mission_loaded']_vars

\* C8: a failed synchronization leaves the mission not loaded: whenever
\* upload_mission or download_mission returns failure, is_mission_loaded()
\* is false afterwards, also when an earlier call had marked it loaded.
C8_FailureLeavesNotLoaded ==
    ((Returned("upload") \/ Returned("download")) /\ ~result) => ~mission_loaded

\* read i of the download (index i - 1) got a waypoint from the device
ReadGotWaypoint(i) ==
    /\ dlReads[i].kind = "frame"
    /\ dlReads[i].res.ok
    /\ dlReads[i].res.code = 118
    /\ \/ dlReads[i].res.data.len = 21 /\ dlReads[i].res.data.wp_no = i - 1
       \/ dlReads[i].res.data.len = 12

ReadIsZero(i) == dlReads[i].res.data.lat = 0 /\ dlReads[i].res.data.lon = 0

\* the waypoint the mission must hold for read i
ReadAsWaypoint(i) ==
    LET d == dlReads[i].res.data IN
    IF d.len = 21
    THEN [lat |-> [n |-> d.lat, f |-> 0], lon |-> [n |-> d.lon, f |-> 0],
          alt |-> [n |-> d.alt, f |-> 0], action |-> d.action, param1 |-> d.p1,
          param2 |-> d.p2, param3 |-> d.p3, flag |-> d.flag]
    ELSE [lat |-> [n |-> d.lat, f |-> 0], lon |-> [n |-> d.lon, f |-> 0],
          alt |-> [n |-> d.alt, f |-> 0], action |-> 1, param1 |-> 0,
          param2 |-> 0, param3 |-> 0, flag |-> 0]

\* the device returned non-zero waypoints for indices 0..k-1 and a zero one at k
SentinelAt(k) ==
    /\ k + 1 <= Len(dlReads)
    /\ \A i \in 1..(k + 1) : ReadGotWaypoint(i)
    /\ \A i \in 1..k : ~ReadIsZero(i)
    /\ ReadIsZero(k + 1)

\* C9: download sentinel stop: when the device returns non-zero waypoints for
\* indices 0..k-1 and a waypoint with latitude and longitude zero at index k,
\* download_mission yields exactly those k waypoints in order, whatever the
\* mission held before, reads no index above k, and marks the mission loaded.
C9_SentinelStop ==
    \A k \in 0..59 :
        (op = "download" /\ SentinelAt(k)) =>
            /\ pc = "idle"
            /\ result
            /\ mission_loaded
            /\ Len(dlReads) = k + 1
            /\ Len(chan.txlog) = k + 1
            /\ \A i \in 1..(k + 1) :
                  chan.txlog[i].code = 118 /\ chan.txlog[i].data.wp_no = i - 1
            /\ Len(waypoints) = k
            /\ \A i \in 1..k : waypoints[i] = ReadAsWaypoint(i)

\* a download that replaced a full mission by 59 waypoints, the sentinel
\* being in the last slot
C9_Witness ==
    /\ Returned("download")
    /\ SentinelAt(59)
    /\ Len(waypoints) = 59
    /\ ~loadedAtCall

\* C10: trailing-slot clear: an upload_mission that returns success has
\* written, after the N mission waypoints in order, one empty waypoint
\* (latitude 0, longitude 0) to each index i with N <= i < min(N + 5, 60) and
\* to no other index, and none when N = 60.
C10_TrailingSlotsCleared ==
    (Returned("upload") /\ result) =>
        LET N == Len(waypoints)
            top == IF N + 5 < 60 THEN N + 5 ELSE 60
        IN  /\ Len(SetWpFrames) = top
            /\ \A j \in 1..Len(SetWpFrames) :
                  /\ SetWpFrames[j].data.wp_no = j - 1
                  /\ j > N => (SetWpFrames[j].data.lat = 0 /\ SetWpFrames[j].data.lon = 0)

\* the frames of the call are those of the mission's waypoints: the upload
\* loop is running or has ended, and the clear loop has not run
MissionWritesOnly ==
    /\ op = "upload"
    /\ \/ pc \in {"uploading", "clearing"}
       \/ pc = "idle" /\ validate /\ ~result

\* C11: upload order: upload_mission writes the mission's waypoints in
\* strictly increasing index order, the index in each write-waypoint payload
\* is the waypoint's position in the list (and the payload is that waypoint's),
\* and with verification requested the read of index i comes before the
\* write of index i + 1: the frame after each write is the read of its index.
C11_UploadOrder ==
    MissionWritesOnly =>
        /\ \A j \in 1..Len(SetWpFrames) :
              LET d == SetWpFrames[j].data IN
              /\ d.wp_no \in 0..(Len(waypoints) - 1)
              /\ d.action = waypoints[d.wp_no + 1].action
              /\ d.p1 = waypoints[d.wp_no + 1].param1
              /\ Whole(d.lat) = Whole(ToWire(waypoints[d.wp_no + 1].lat))
              /\ Whole(d.lon) = Whole(ToWire(waypoints[d.wp_no + 1].lon))
              /\ Whole(d.alt) = Whole(ToWire(waypoints[d.wp_no + 1].alt))
              /\ j > 1 => SetWpFrames[j - 1].data.wp_no < d.wp_no
              /\ validate => d.wp_no = j - 1
        /\ validate =>
              \A j \in 1..Len(chan.txlog) :
                  IF j % 2 = 1
                  THEN chan.txlog[j].code = 209
                  ELSE /\ chan.txlog[j].code = 118
                       /\ chan.txlog[j].data.wp_no = chan.txlog[j - 1].data.wp_no

\* a verified upload of two waypoints has written and read back both
C11_Witness ==
    /\ op = "upload"
    /\ pc = "clearing"
    /\ validate
    /\ Len(waypoints) = 2
    /\ Len(chan.txlog) = 4
    /\ chan.txlog[3].data.wp_no = 1

-----------------------------------------------------------------------------
(* Properties of the local edits, under EditSpec *)

\* this step is a call of the local edit name
Edits(name) == args'.n = args.n + 1 /\ args'.name = name

\* C12: capacity on local edits: add_waypoint or insert_waypoint on a mission
\* that holds 60 waypoints fails and leaves the same 60 waypoints in the same
\* order.
C12_CapacityOnEdits ==
    [][(Len(waypoints) = 60 /\ (Edits("add_waypoint") \/ Edits("insert_waypoint")))
          => (~result' /\ waypoints' = waypoints)]_vars

\* an in-range waypoint was refused at the head of a mission of 60
C12_Witness ==
    /\ op = "insert_waypoint"
    /\ args.index = 0
    /\ args.wp = WpOk
    /\ Len(waypoints) = 60
    /\ ~result

\* the waypoint passed lies outside the limits: latitude [-90, 90] degrees
\* (wire units of 1e-7 degrees), longitude [-180, 180], altitude
\* [-1000, 10000] m (wire units of 0.01 m)
OutOfRange(wp) ==
    \/ wp.lat.n < -900000000 \/ wp.lat.n > 900000000
    \/ (wp.lat.n = 900000000 /\ wp.lat.f > 0)
    \/ wp.lon.n < -1800000000 \/ wp.lon.n > 1800000000
    \/ (wp.lon.n = 1800000000 /\ wp.lon.f > 0)
    \/ wp.alt.n < -100000 \/ wp.alt.n > 1000000
    \/ (wp.alt.n = 1000000 /\ wp.alt.f > 0)

\* this step is a local edit whose arguments are to be rejected
RejectedEdit ==
    \/ (Edits("add_waypoint") \/ Edits("insert_waypoint")) /\ OutOfRange(args'.wp)
    \/ Edits("insert_waypoint") /\ (args'.index < 0 \/ args'.index > Len(waypoints))
    \/ Edits("remove_waypoint") /\ (args'.index < 0 \/ args'.index > Len(waypoints) - 1)

\* C13: a rejected local edit changes nothing: add_waypoint or insert_waypoint
\* with a latitude, longitude or altitude outside its limits or an insert
\* index outside 0..len, or remove_waypoint with an index outside 0..len-1,
\* returns failure, and the waypoint list, the loaded bit and the channel (no
\* frame sent) are as before the call.
C13_RejectedEditChangesNothing ==
    [][RejectedEdit =>
          /\ ~result'
          /\ waypoints' = waypoints
          /\ mission_loaded' = mission_loaded
          /\ chan' = chan]_vars

\* a mission that was uploaded and marked loaded refused a waypoint whose
\* altitude is above the limit
C13_Witness ==
    /\ op = "add_waypoint"
    /\ args.wp = WpAltOver
    /\ ~result
    /\ mission_loaded
    /\ Len(waypoints) = 2
    /\ Len(chan.txlog) > 0

\* the mission may not be uploaded
InvalidMission ==
    \/ Len(waypoints) > 60
    \/ \E i \in 1..Len(waypoints) : OutOfRange(waypoints[i])

\* C14: invalid missions are blocked from upload: for either value of
\* validate, upload_mission on a mission that holds a waypoint with
\* out-of-range coordinates, or more than 60 waypoints, returns failure, does
\* not mark the mission loaded, and sends no write-waypoint frame carrying
\* out-of-range coordinates.
C14_InvalidMissionBlocked ==
    (op = "upload" /\ InvalidMission) =>
        /\ pc = "idle" => ~result
        /\ mission_loaded = loadedAtCall
        /\ \A j \in 1..Len(SetWpFrames) :
              /\ SetWpFrames[j].data.lat \in -900000000..900000000
              /\ SetWpFrames[j].data.lon \in -1800000000..1800000000
              /\ SetWpFrames[j].data.alt \in -100000..1000000

-----------------------------------------------------------------------------
(* Properties of the session, under SessSpec and SendSpec *)

\* the bytes the probe's read_response consumed end with one whole $X> frame
ProbeGotWholeV2 ==
    /\ sess.probe = "read"
    /\ \E i \in 1..Len(Consumed) : WholeV2(SubSeq(Consumed, i, Len(Consumed)))

\* C15: negotiation outcome: after the session is opened, msp_v2_supported is
\* true if and only if the response received to the V2 probe was a well-formed
\* V2 response frame ($X> with a matching CRC-8); a V1 response frame, an
\* error frame, an integrity mismatch or a timeout leaves the session on V1.
C15_NegotiationOutcome ==
    sess.state = "ready" => (sess.v2 <=> ProbeGotWholeV2)

\* the line at the probe's read: some noise, then what the predicate tail says
AfterNoise(tail(_)) ==
    \E p \in 0..Len(rdInput) :
        /\ \A i \in 1..p : rdInput[i] \in NoiseItems \cup {GAP}
        /\ tail(SubSeq(rdInput, p + 1, Len(rdInput)))

IsSilence(t) == t = <<>>

IsRejection(t) == t = <<36, 77, 33>>

\* a response frame cut short, or with one bit flipped, that fails the frame
\* checks (a flip in the size byte can leave a shorter frame whose checksum
\* matches: on the line that is a whole frame, not a malformed one)
IsMalformed(t) ==
    /\ ~\E k \in 1..Len(t) : WholeV1(SubSeq(t, 1, k)) \/ WholeV2(SubSeq(t, 1, k))
    /\ \E f \in ResponseFrames \ {MSP_ERROR} :
          \/ \E k \in 1..(Len(f) - 1) : t = CutAt(f, k)
          \/ \E k \in 1..Len(f) : t = FlipAt(f, k)

\* the probe failed: a write error, a read error, a timeout, a rejected or a
\* malformed response
ProbeFailed ==
    \/ sess.probe \in {"write_error", "read_error"}
    \/ /\ sess.probe = "read"
       /\ \/ AfterNoise(IsSilence)
          \/ AfterNoise(IsRejection)
          \/ AfterNoise(IsMalformed)

WantsV2 == sess.v2 /\ ~sess.call.force_v1 /\ sess.call.len <= 65535

\* the last send_msp call wrote one frame with this header
Emitted(header) ==
    /\ sess.raised = "none"
    /\ Len(sess.tx) > 0
    /\ sess.tx[Len(sess.tx)] =
          [header |-> header, code |-> sess.call.code, len |-> sess.call.len]

\* C17: version choice on send: for every code, payload and force_v1,
\* send_msp emits a V2 frame ($X<) exactly when msp_v2_supported is true,
\* force_v1 is false and the payload is at most 65535 bytes long, and a V1
\* frame ($M<) in every other case.
C17_VersionChoice ==
    sess.sends > 0 =>
        IF WantsV2 THEN Emitted(<<36, 88, 60>>) ELSE Emitted(<<36, 77, 60>>)

\* C17, amended: send_msp emits a V2 frame exactly when msp_v2_supported is
\* true, force_v1 is false and the payload is at most 65535 bytes long; in
\* every other case it hands the send to the V1 encoder, which emits a V1
\* frame when the payload is at most 255 bytes long and the code at most 255,
\* and otherwise raises and writes nothing.
C17_VersionChoiceAmended ==
    [][sess'.sends = sess.sends + 1 =>
          LET c == sess'.call
              wantsV2 == sess.v2 /\ ~c.force_v1 /\ c.len <= 65535
              frame(h) == [header |-> h, code |-> c.code, len |-> c.len]
          IN  IF wantsV2
              THEN sess'.raised = "none" /\ sess'.tx = Append(sess.tx, frame(<<36, 88, 60>>))
              ELSE IF c.len <= 255 /\ c.code <= 255
              THEN sess'.raised = "none" /\ sess'.tx = Append(sess.tx, frame(<<36, 77, 60>>))
              ELSE sess'.raised # "none" /\ sess'.tx = sess.tx]_vars

\* on a V2 session a payload of 65536 bytes went to the V1 encoder, which
\* raised
C17_Witness ==
    /\ sess.sends > 0
    /\ sess.v2
    /\ ~sess.call.force_v1
    /\ sess.call.len = 65536
    /\ sess.raised = "MSPException"

-----------------------------------------------------------------------------
(* Properties of read_response, under CodecSpec *)

\* a response header followed by a valid frame arrived before the deadline:
\* the line held one whole frame with no silence before its last byte
FrameArrived ==
    \E j \in 1..Len(rdInput) :
        /\ \A k \in 1..j : rdInput[k] # GAP
        /\ \E i \in 1..j : \/ WholeV1(SubSeq(rdInput, i, j))
                           \/ WholeV2(SubSeq(rdInput, i, j))

\* C18: receive is deadline-bounded: for every incoming byte stream (empty,
\* noise without a response header, noise with '$' followed by unrecognized
\* bytes, ...) read_response returns, and if no response header followed by
\* a valid frame arrives before the deadline it returns (None, None).
C18_DeadlineBounded ==
    (rdIters > 0 /\ ~FrameArrived) => ~ret.ok

\* the line held p noise bytes and then exactly the whole frame t
NoiseThenFrame(p) ==
    /\ p < Len(rdInput)
    /\ \A i \in 1..Len(rdInput) : rdInput[i] \in 0..255
    /\ \/ WholeV1(SubSeq(rdInput, p + 1, Len(rdInput)))
       \/ WholeV2(SubSeq(rdInput, p + 1, Len(rdInput)))

\* C19: resynchronization: when the incoming stream is any sequence of noise
\* bytes (any values, '$' included) followed by one complete valid response
\* frame, all of it there before the deadline, read_response returns that
\* frame's code and payload.
C19_Resynchronization ==
    \A p \in 0..MaxNoise :
        (rdIters > p /\ NoiseThenFrame(p)) =>
            LET f == SubSeq(rdInput, p + 1, Len(rdInput)) IN
            /\ ret.ok
            /\ IF f[2] = 77
               THEN ret.code = f[5] /\ ret.data = SubSeq(f, 6, Len(f) - 1)
               ELSE ret.code = f[5] + 256 * f[6] /\ ret.data = SubSeq(f, 9, Len(f) - 1)

\* the bytes, silences left out
Bytes(f) == SelectSeq(f, LAMBDA b : b # GAP)

\* the length the response frame at the head of f declares for itself
DeclaredSpan(f) ==
    IF SubSeq(f, 1, 3) = MSP_ERROR THEN 3
    ELSE IF SubSeq(f, 1, 3) = MSP_V1_RESPONSE
    THEN IF Len(f) >= 4 THEN 6 + f[4] ELSE 6
    ELSE IF Len(f) >= 8 THEN 9 + f[7] + 256 * f[8] ELSE 9

\* w is exactly one request frame: a $M< or $X< header, the length its size
\* field declares, nothing behind it
OneRequestFrame(w) ==
    /\ Len(w) >= 6
    /\ \/ SubSeq(w, 1, 3) = MSP_V1_HEADER /\ Len(w) = 6 + w[4]
       \/ /\ SubSeq(w, 1, 3) = MSP_V2_HEADER
          /\ Len(w) >= 9
          /\ Len(w) = 9 + w[7] + 256 * w[8]

\* C20: no retries in the transport layer: each read_response call ends on
\* exactly one of DecodingV1, DecodingV2, Rejected or TimedOut and returns;
\* it attempts at most one frame (when the line starts with a response header
\* it takes no byte beyond the length that frame declares, so after an
\* integrity mismatch a frame that follows stays on the line and the call
\* fails) and it writes nothing to the channel; each send call writes exactly
\* one frame.
C20_NoRetries ==
    [][/\ rdIters' > 0 =>
            /\ written' = written
            /\ ret'.path \in {"DecodingV1", "DecodingV2", "Rejected", "TimedOut"}
            /\ (ret'.path = "TimedOut" \/ ret'.path = "Rejected") => ~ret'.ok
            /\ LET line == Bytes(rdInput')
                   taken == Bytes(SubSeq(rdInput', 1, Len(rdInput') - Len(port')))
               IN  (/\ Len(line) >= 3
                    /\ SubSeq(line, 1, 3) \in {MSP_V1_RESPONSE, MSP_V2_RESPONSE, MSP_ERROR})
                      => Len(taken) <= DeclaredSpan(line)
       /\ written' # written /\ written' # <<>> =>
            /\ written = <<>>
            /\ OneRequestFrame(written')]_vars

\* a $M> frame with a wrong checksum byte was followed by a whole frame: the
\* call failed and the second frame is still on the line
C20_Witness ==
    /\ rdIters > 0
    /\ Len(rdInput) = 12
    /\ SubSeq(rdInput, 1, 5) = <<36, 77, 62, 0, 1>>
    /\ rdInput[6] # 1
    /\ SubSeq(rdInput, 7, 12) = SecondFrame
    /\ ~ret.ok
    /\ ret.path = "DecodingV1"
    /\ port = SecondFrame
    /\ written = <<>>

\* the line held p bytes of plain noise (no '$', no silence), then the error
\* header $M!, and the scan had more than p iterations before its deadline
ErrorHeaderFirst(p) ==
    /\ rdIters > p
    /\ Len(rdInput) >= p + 3
    /\ \A i \in 1..p : rdInput[i] \in 0..255 /\ rdInput[i] # 36
    /\ SubSeq(rdInput, p + 1, p + 3) = <<36, 77, 33>>

\* C21: rejection yields no data: when the first header the scan recognizes is
\* the error marker $M!, read_response returns (None, None) at once: no code,
\* no payload byte, and it reads nothing behind the marker (what follows, a
\* whole frame included, stays on the line; the deadline is not waited for).
C21_RejectionNoData ==
    /\ \A p \in 0..MaxNoise :
          ErrorHeaderFirst(p) =>
              /\ ret.path = "Rejected"
              /\ port = SubSeq(rdInput, p + 4, Len(rdInput))
    /\ (rdIters > 0 /\ ret.path = "Rejected") =>
          /\ ~ret.ok
          /\ ret.code = -1
          /\ ret.data = <<>>
          /\ Len(Consumed) >= 3
          /\ SubSeq(Consumed, Len(Consumed) - 2, Len(Consumed)) = <<36, 77, 33>>

\* $M! came behind one noise byte and ahead of a whole frame: the call
\* returned nothing and the frame is still on the line
C21_Witness ==
    /\ rdIters > 1
    /\ rdInput = <<7, 36, 77, 33>> \o SecondFrame
    /\ ret = [NoneResult EXCEPT !.path = "Rejected"]
    /\ port = SecondFrame

-----------------------------------------------------------------------------
(* Properties of the request frames, under CodecSpec *)

\* how many of the bytes have the bit of weight k set
BitCount(bytes, k) == Cardinality({i \in DOMAIN bytes : (bytes[i] \div k) % 2 = 1})

\* the XOR of all the bytes: each bit is the parity of that bit over the bytes
XorOfAll(bytes) ==
    (BitCount(bytes, 1) % 2) + 2 * (BitCount(bytes, 2) % 2)
        + 4 * (BitCount(bytes, 4) % 2) + 8 * (BitCount(bytes, 8) % 2)
        + 16 * (BitCount(bytes, 16) % 2) + 32 * (BitCount(bytes, 32) % 2)
        + 64 * (BitCount(bytes, 64) % 2) + 128 * (BitCount(bytes, 128) % 2)

\* the V1 request frame as the frame format states it
FrameFormatV1(code, d) ==
    <<36, 77, 60, Len(d), code>> \o d \o <<XorOfAll(<<Len(d), code>> \o d)>>

V1FramesAsStated ==
    \A c \in CodesV1, d \in Payloads : PacketV1(c, d) = FrameFormatV1(c, d)

\* C23: V1 request frame: for every code in 0..255 and payload of length
\* n <= 255, send_msp_v1 writes exactly the bytes 24 4D 3C, n, code, the
\* payload, and one checksum byte equal to n XOR code XOR the XOR of all
\* payload bytes.
C23_RequestFrameV1 ==
    /\ V1FramesAsStated
    /\ (Len(written) >= 3 /\ SubSeq(written, 1, 3) = <<36, 77, 60>>) =>
          \E c \in CodesV1, d \in Payloads : written = FrameFormatV1(c, d)

\* send_msp_v1(1, b'\x00\x03') wrote 24 4D 3C 02 01 00 03 00
C23_Witness == written = <<36, 77, 60, 2, 1, 0, 3, 0>>

\* bit number k (from 1, the top bit of the first byte first) of the bytes
BitAt(bytes, k) == (bytes[((k - 1) \div 8) + 1] \div (2 ^ (7 - ((k - 1) % 8)))) % 2

\* one step of the CRC register: the top bit and the message bit decide
\* whether the polynomial is subtracted after the shift
Crc8D5Step ==
    [reg \in 0..255 |->
        [bit \in 0..1 |->
            IF ((reg \div 128) + bit) % 2 = 1
            THEN XorOfAll(<<(reg * 2) % 256, 213>>)
            ELSE (reg * 2) % 256]]

\* CRC-8, polynomial 0xD5, initial value 0, MSB first: the register after the
\* first k bits, one bit at a time
RECURSIVE Crc8D5(_, _)
Crc8D5(bytes, k) ==
    IF k = 0 THEN 0 ELSE Crc8D5Step[Crc8D5(bytes, k - 1)][BitAt(bytes, k)]

\* the V2 request frame as the frame format states it
FrameFormatV2(code, d) ==
    LET body == <<0, code % 256, code \div 256, Len(d) % 256, Len(d) \div 256>> \o d
    IN  <<36, 88, 60>> \o body \o <<Crc8D5(body, 8 * Len(body))>>

V2FramesAsStated ==
    \A c \in CodesV2, d \in Payloads : PacketV2(c, d) = FrameFormatV2(c, d)

\* C24: V2 request frame: for every code in 0..65535 and payload of length
\* n <= 65535, send_msp_v2 writes exactly the bytes 24 58 3C, flag 0, code as
\* 2 bytes little-endian, n as 2 bytes little-endian, the payload, and one CRC
\* byte equal to the CRC-8 (polynomial 0xD5, initial value 0, MSB first) over
\* flag, code, size and payload.
C24_RequestFrameV2 ==
    /\ V2FramesAsStated
    /\ (Len(written) >= 3 /\ SubSeq(written, 1, 3) = <<36, 88, 60>>) =>
          \E c \in CodesV2, d \in Payloads : written = FrameFormatV2(c, d)

\* send_msp_v2(4660, b'\x03') wrote 24 58 3C 00 34 12 01 00 03 5A
C24_Witness == written = <<36, 88, 60, 0, 52, 18, 1, 0, 3, 90>>

BitWeights == {1, 2, 4, 8, 16, 32, 64, 128}

\* the bytes with the bit of weight k of byte i flipped
FlipBit(bytes, i, k) == [bytes EXCEPT ![i] = Xor(bytes[i], k)]

\* the payload of the V1 request that was written
WrittenPayloadV1 == SubSeq(written, 6, Len(written) - 1)

\* flag, code, size and payload of the V2 request that was written
WrittenBodyV2 == SubSeq(written, 4, Len(written) - 1)

\* C26: single-bit sensitivity: for every size, code and payload, flipping any
\* single bit of the payload changes the V1 XOR checksum, and changes the V2
\* CRC-8 computed over the frame body.
C26_SingleBitSensitivity ==
    /\ (Len(written) >= 6 /\ SubSeq(written, 1, 3) = MSP_V1_HEADER) =>
          \A i \in 1..Len(WrittenPayloadV1), k \in BitWeights :
              calculate_checksum_v1(written[4], written[5], FlipBit(WrittenPayloadV1, i, k))
                  # calculate_checksum_v1(written[4], written[5], WrittenPayloadV1)
    /\ (Len(written) >= 9 /\ SubSeq(written, 1, 3) = MSP_V2_HEADER) =>
          \A i \in 6..Len(WrittenBodyV2), k \in BitWeights :
              calculate_crc_v2(FlipBit(WrittenBodyV2, i, k))
                  # calculate_crc_v2(WrittenBodyV2)

\* a V2 request with two payload bytes was written, and its CRC byte is not
\* the CRC of the body with the top bit of the last payload byte flipped
C26_Witness ==
    /\ Len(written) = 11
    /\ SubSeq(written, 1, 3) = MSP_V2_HEADER
    /\ written[11] = calculate_crc_v2(WrittenBodyV2)
    /\ written[11] # calculate_crc_v2(FlipBit(WrittenBodyV2, 7, 128))

-----------------------------------------------------------------------------
(* Properties of send_msp, under SendSpec *)

\* C25: V1 payload limit: a send that is routed to V1 with a payload longer
\* than 255 bytes (a payload longer than 65535 bytes on a V2-capable session
\* included) fails with an MSP error and writes no byte to the channel.
C25_PayloadLimitV1 ==
    [][(/\ sess'.sends = sess.sends + 1
        /\ ~(sess.v2 /\ ~sess'.call.force_v1 /\ sess'.call.len <= 65535)
        /\ sess'.call.len > 255)
          => (sess'.raised = "MSPException" /\ sess'.tx = sess.tx)]_vars

\* the first send of a V1 session had 256 payload bytes: it raised and
\* nothing was written
C25_Witness ==
    /\ sess.sends = 1
    /\ ~sess.v2
    /\ sess.call.len = 256
    /\ sess.raised = "MSPException"
    /\ sess.tx = <<>>

-----------------------------------------------------------------------------
(* Properties of the fixed-point conversion, under FixedSpec *)

\* C27: fixed-point round trip: for every altitude in range, encoding (value
\* times 100, as in set_waypoint) and decoding (integer divided by 100, as
\* in get_waypoint) gives a value within 0.01 m of the original, for negative
\* as well as positive values.  (Latitude and longitude go through the same
\* two operations with 1e7 in place of 100.)
C27_FixedPointRoundTrip ==
    fx.stage = "decoded" => WithinOneOver(fx.alt, fx.back, ALT_SCALE)

-----------------------------------------------------------------------------
(* Properties of two threads on one session, under ThreadSpec *)

\* C22: at most one outstanding request per session: when two threads use the
\* same ConnectionManager, each doing send_msp and then read_response, no send
\* of one thread falls between the other thread's send and the return of its
\* read_response, and a thread that gets a response gets the one to its own
\* request.
C22_OneOutstandingRequest ==
    /\ \A i \in DOMAIN thr.log, j \in DOMAIN thr.log :
          (/\ i < j
           /\ thr.log[i].ev = "send"
           /\ thr.log[j].ev = "send"
           /\ thr.log[i].t # thr.log[j].t)
              => \E k \in (i + 1)..(j - 1) :
                    thr.log[k] = [t |-> thr.log[i].t, ev |-> "return"]
    /\ \A t \in Threads : thr.got[t].ok => thr.got[t].code = ThreadCode(t)

-----------------------------------------------------------------------------
(* Properties of the mission file, under FileSpec *)

\* C28: for every mission, save_mission_to_file followed by
\* load_mission_from_file of the same file succeeds and yields the same
\* waypoints in the same order, each with identical lat, lon, alt, action,
\* param1, param2, param3 and flag
C28_FileRoundTrip ==
    disk.stage = "loaded" =>
        /\ disk.saved
        /\ disk.loaded
        /\ disk.back = disk.waypoints

-----------------------------------------------------------------------------
(* Properties of Control, under ControlSpec *)

\* the requests the last call wrote, in order
SentByCall == SubSeq(ctl.tx, ctl.txAtCall + 1, Len(ctl.tx))

\* C29: on a newly constructed Control (safety checks enabled, no RC frame
\* sent yet), arm() with its default argument, when no send fails, returns
\* True and sends the arming RC frame (throttle at minimum, yaw at maximum)
\* followed by the frame that returns yaw to neutral
C29_BasicUsageArms ==
    (ctl.op = "arm" /\ ctl.n = 1 /\ ctl.flag /\ ctl.env.fails = "never") =>
        /\ ctl.result
        /\ \E i \in 1..(Len(SentByCall) - 1) :
               /\ SentByCall[i] = RcFrame(PWM_MIN, PWM_MAX)
               /\ \E j \in (i + 1)..Len(SentByCall) :
                      SentByCall[j] = RcFrame(PWM_MIN, PWM_NEUTRAL)

\* C30: in every state of Control (safety enabled or disabled, armed or
\* disarmed), emergency_stop is never refused by a safety check and the first
\* request it writes is the RC frame with throttle at minimum: no status query
\* precedes it
C30_EmergencyStopFirst ==
    ctl.op = "emergency_stop" =>
        /\ ctl.env.fails = "never" => ctl.result
        /\ Len(SentByCall) > 0 =>
               (SentByCall[1].code = MSP_SET_RAW_RC /\ SentByCall[1].throttle = PWM_MIN)

-----------------------------------------------------------------------------
(* Properties of the planning helpers and of edit sequences, under PlanSpec *)

\* every triple of the list lies within validate_coordinates' limits
AllInBounds(c) ==
    \A i \in 1..c.k :
        validate_coordinates(SimpleCoord(c, i).lat, SimpleCoord(c, i).lon,
                             SimpleCoord(c, i).alt)

\* C31: create_simple_mission with k >= 1 coordinate triples, all within
\* bounds, returns True and leaves the mission with exactly k + 1 waypoints:
\* the k given positions in order with action WAYPOINT, followed by one
\* RETURN_TO_HOME waypoint at the last position; when it returns False the
\* mission is left as it was before the call
C31_SimpleMission ==
    [][Edits("create_simple_mission") =>
          /\ (args'.coords.k >= 1 /\ AllInBounds(args'.coords)) =>
                 /\ result'
                 /\ waypoints' = Append(SimpleAdded(args'.coords, args'.coords.k, 500),
                                        SimpleRth(args'.coords))
          /\ ~result' => waypoints' = waypoints]_vars

\* C33: after any sequence of add_waypoint, insert_waypoint, remove_waypoint,
\* clear_mission, create_simple_mission, create_survey_mission and
\* load_mission_from_file, every waypoint of the mission has its latitude in
\* [-90, 90], its longitude in [-180, 180] and its altitude in [-1000, 10000]
C33_WaypointBounds ==
    \A i \in 1..Len(waypoints) :
        validate_coordinates(waypoints[i].lat, waypoints[i].lon, waypoints[i].alt)

\* C34: after any sequence of add_waypoint, insert_waypoint, remove_waypoint,
\* clear_mission, create_simple_mission, create_survey_mission and
\* load_mission_from_file, the mission holds at most 60 waypoints
C34_Capacity == Len(waypoints) <= MAX_WAYPOINTS

-----------------------------------------------------------------------------
(* Properties of an upload followed by a download, under Spec *)

\* what the device stores of a waypoint and download_mission decodes
Quantized(wp) == UnpackExt(PackWaypoint(0, wp))

\* the second call was a download, the first a successful upload of
\* success_count waypoints, on a session that stayed up to a device that
\* answers in the extended format
DownloadedAfterUpload ==
    /\ op = "download"
    /\ pc = "idle"
    /\ calls = 2
    /\ loadedAtCall
    /\ success_count > 0
    /\ chan.up
    /\ chan.mode = "device"
    /\ chan.fmt = "ext"

\* C35: against a device that stores each written waypoint and answers every
\* request with one frame, whatever it held before, a successful
\* upload_mission of N waypoints followed by download_mission yields exactly
\* those N waypoints, each as the wire quantizes it
C35_UploadThenDownload ==
    DownloadedAfterUpload =>
        /\ result
        /\ waypoints = [i \in 1..success_count |-> Quantized(InitWp(i - 1))]

-----------------------------------------------------------------------------
(* Properties of a session in use, under UseSpec *)

\* C32: after construction has completed, no send_msp, send_msp_v1,
\* send_msp_v2, read_response, flush or close call, whatever its outcome,
\* changes msp_v2_supported
C32_VersionFlagSticky == [][sess'.v2 = sess.v2]_vars

\* a session on V2 was closed and a later call raised on it
C32_Witness ==
    /\ sess.v2
    /\ ~sess.open
    /\ sess.sends = MaxSends
    /\ sess.raised = "MSPException"

-----------------------------------------------------------------------------
(* Properties of the trailing-slot clear, under EditSpec *)

EmptyWrite(f) == f.data.action = 0 /\ f.data.lat = 0 /\ f.data.lon = 0

\* C36: the trailing-slot clear never destroys uploaded waypoints: in every
\* upload_mission call, with or without verification and whatever writes
\* fail, an empty waypoint is written only to indices at or above the
\* mission's length N, never to an index below N to which a waypoint of the
\* mission was written earlier in the same call.
C36_ClearAboveMission ==
    Returned("upload") =>
        \A j \in 1..Len(SetWpFrames) :
            EmptyWrite(SetWpFrames[j]) =>
                /\ SetWpFrames[j].data.wp_no >= Len(waypoints)
                /\ \A k \in 1..(j - 1) :
                      SetWpFrames[k].data.wp_no # SetWpFrames[j].data.wp_no

-----------------------------------------------------------------------------
(* Properties of the end of a receive, under CodecSpec *)

\* the line held the response frame f as it arrived (whole, cut short, with
\* a silence in it or with one bit flipped behind its header), and behind it
\* the next response
FrameThenNext(g) ==
    /\ rdIters > 0
    /\ Len(g) >= 3
    /\ SubSeq(g, 1, 3) \in {MSP_V1_RESPONSE, MSP_V2_RESPONSE, MSP_ERROR}
    /\ rdInput = g \o SecondFrame

\* C37: receive returns at a frame boundary: when read_response returns after
\* recognizing a response header ($M>, $X> or $M!), every byte of that frame
\* has been taken from the line and none of the next: the next read_response
\* starts at the first byte after the frame.
C37_ReturnsAtFrameBoundary ==
    \A f \in ResponseFrames : \A g \in Garbled(f) :
        (FrameThenNext(g) /\ ret.path # "TimedOut") => port = SecondFrame

-----------------------------------------------------------------------------
(* Properties of the RC frames, under ChannelsSpec *)

RcFrames(tx) == SelectSeq(tx, LAMBDA f : f.code = MSP_SET_RAW_RC)

\* the call just returned is one the channel limits are promised for: any
\* but a send_rc without validation
ValidatedCall == ctl.n > 0 /\ ~(ctl.op = "send_rc" /\ ~ctl.flag)

WellFormedChannels(channels) ==
    /\ Len(channels) >= 8
    /\ Len(channels) <= 16
    /\ \A i \in 1..Len(channels) : channels[i] >= PWM_MIN /\ channels[i] <= PWM_MAX

\* C38: RC frames are well-formed after any sequence of Control operations:
\* every MSP_SET_RAW_RC frame sent by arm, disarm, emergency_stop,
\* set_throttle, set_attitude, set_aux_channel, set_flight_mode,
\* reset_rc_channels or send_rc with validation carries 8 to 16 channel
\* values, each within 1000..2000, and the stored last-sent values are the
\* channels of the most recent frame that was sent.
C38_RcFramesWellFormed ==
    /\ ValidatedCall =>
          \A j \in (ctl.txAtCall + 1)..Len(ctl.tx) :
              ctl.tx[j].code = MSP_SET_RAW_RC => WellFormedChannels(ctl.tx[j].channels)
    /\ LET sent == RcFrames(ctl.tx)
       IN  IF sent = <<>> THEN ctl.last_rc_values = Neutral16
           ELSE ctl.last_rc_values = sent[Len(sent)].channels

\* send_rc with validation, the last call of the run, was given seventeen
\* values, one of them no number: its frame went out with sixteen values, the
\* second of them neutral
C38_Witness ==
    /\ ctl.op = "send_rc" /\ ctl.flag /\ ctl.result
    /\ ctl.n = MaxCtlCalls
    /\ Len(ctl.tx) > ctl.txAtCall
    /\ Len(ctl.last_rc_values) = 16
    /\ ctl.last_rc_values[2] = PWM_NEUTRAL

-----------------------------------------------------------------------------
(* Properties of set_throttle, under ControlSpec *)

\* set_throttle has just returned or raised
ThrottleCalled == ctl.op = "set_throttle"

\* C39: throttle is refused while disarmed: with safety checks enabled,
\* set_throttle returns False and sends no RC frame whenever the status query
\* of the safety check is answered "disarmed" or is not answered; with safety
\* checks disabled no status query is sent.
C39_ThrottleRefusedDisarmed ==
    /\ (/\ ThrottleCalled /\ ctl.safetyAtCall
        /\ ctl.env.status \in {"disarmed", "none"}
        /\ ctl.env.fails # "status")
          => /\ ~ctl.result
             /\ ~ctl.raised
             /\ \A j \in 1..Len(SentByCall) : SentByCall[j].code # MSP_SET_RAW_RC
    /\ (ThrottleCalled /\ ~ctl.safetyAtCall)
          => \A j \in 1..Len(SentByCall) : SentByCall[j].code # MSP_STATUS

\* set_throttle(100) with safety on and the status answered "disarmed": the
\* query went out, nothing else did, the call returned False
C39_Witness ==
    /\ ThrottleCalled /\ ctl.safetyAtCall
    /\ ctl.percent = 100
    /\ ctl.env = [status |-> "disarmed", fails |-> "never"]
    /\ SentByCall = <<StatusFrame>>
    /\ ~ctl.result

-----------------------------------------------------------------------------
(* Properties of the calibration sequence, under SensorsSpec *)

StepNames == [i \in 1..Len(cal.steps) |-> cal.steps[i].name]

\* C40: calibrate_all_sensors reports success exactly when every requested
\* step succeeded: with include_mag=True it returns True if and only if the
\* gyroscope, accelerometer and magnetometer calibrations all returned True,
\* with include_mag=False if and only if the gyroscope and accelerometer
\* calibrations both returned True; the steps run in the order gyroscope,
\* accelerometer, magnetometer.
C40_CalibrateAllSuccess ==
    cal.op = "calibrate_all_sensors" =>
        /\ StepNames = IF cal.include_mag
                       THEN <<"gyroscope", "accelerometer", "magnetometer">>
                       ELSE <<"gyroscope", "accelerometer">>
        /\ cal.result <=> \A i \in 1..Len(cal.steps) : cal.steps[i].ok
====
